---- MODULE Spec2Model ----
(***************************************************************************)
(* Model of the directive expansion engine of bookLayout                   *)
(* (tools/build/preprocess.py) and of its file watcher                     *)
(* (tools/build/watch.py).                                                 *)
(*                                                                         *)
(* Text is modelled as a sequence of one-character strings, so that the    *)
(* tokenizer, the parsers, the regular expressions and the line splitting  *)
(* are computed character by character, as the source computes them.       *)
(***************************************************************************)
EXTENDS Naturals, Integers, Sequences, FiniteSets, TLC

VARIABLES
    pc,              \* position: "list", "start", "expand", "returned", "done", "raised", "all_done"
    configFile,      \* content of tools/preprocess.conf, or None when the file does not exist
    includeFiles,    \* the files beside the configuration: relative path -> content
    srcFile,         \* content of the Markdown source document (raw)
    options,         \* PreprocessOptions
    subst_rules,     \* dict token -> SubstitutionRule, in insertion order
    directive_rules, \* dict name -> DirectiveRule
    lines,           \* md_text.splitlines() of the expander
    lineno,          \* number of the line the expander's loop handled last
    out,             \* the expander's output lines
    origin,          \* history: for each line of out, how the loop produced it
    errors,          \* the expander's error counter
    tried,           \* what the try block of the loop's last pass came to
    returned,        \* the text expand_whole_line_directives returned, or None
    raisedExc,       \* the exception that left preprocess_file, or NoExc
    dst,             \* content of the destination file, or None while unwritten
    md_files,        \* preprocess_all: the documents list_md_files returned, [name, text]
    file_i,          \* preprocess_all: the number of the document the loop is at, from 1
    total,           \* preprocess_all: its sum of the counts preprocess_file returned
    preprocess_dir,  \* the files of the destination directory: name -> content
    clock,           \* watch.py: time.time(), in twentieths of a second
    _last_run,       \* watch.py: DebouncedRunner._last_run
    event,           \* watch.py: the event the handler was called with last
    on_change_calls, \* watch.py: history, the times at which on_change was called
    last_md_event    \* watch.py: history, the time of the last event on an .md file (0: none)

vars == <<pc, configFile, includeFiles, srcFile, options, subst_rules, directive_rules, lines,
          lineno, out, origin, errors, tried, returned, raisedExc, dst,
          md_files, file_i, total, preprocess_dir,
          clock, _last_run, event, on_change_calls, last_md_event>>

\* The variables of preprocess.py and those of watch.py.
preprocessVars == <<pc, configFile, includeFiles, srcFile, options, subst_rules,
                    directive_rules, lines, lineno, out, origin, errors, tried, returned,
                    raisedExc, dst, md_files, file_i, total, preprocess_dir>>
watchVars == <<clock, _last_run, event, on_change_calls, last_md_event>>

(***************************************************************************)
(* Characters and strings                                                  *)
(***************************************************************************)

\* The characters of a string literal, as a sequence of one-character strings.
Chars(s) == [i \in 1..Len(s) |-> SubSeq(s, i, i)]

\* Python's None. No text equals it: every element of a text is one character.
None == <<"<None>">>

\* str.isspace() / the regular expression class \s, on the model's characters.
Whitespace == {" ", "\t", "\n", "\r", "\f"}

\* The line boundaries of str.splitlines(), on the model's characters.
LineBreaks == {"\n", "\r", "\f"}

\* The grave accent U+0060, which a TLA+ string literal cannot hold: the one
\* character of the model that is written by name.
Backtick == "<backtick>"

Lower == {"a","b","c","d","e","f","g","h","i","j","k","l","m",
          "n","o","p","q","r","s","t","u","v","w","x","y","z"}
Upper == {"A","B","C","D","E","F","G","H","I","J","K","L","M",
          "N","O","P","Q","R","S","T","U","V","W","X","Y","Z"}
Digit == {"0","1","2","3","4","5","6","7","8","9"}

\* Printable ASCII in code point order, from the space (32) to the tilde (126).
AsciiTable ==
    Chars(" !\"#$%&'()*+,-./0123456789:;<=>?@ABCDEFGHIJKLMNOPQRSTUVWXYZ[\\]^_")
    \o <<Backtick>> \o Chars("abcdefghijklmnopqrstuvwxyz{|}~")

\* ord(c)
CodePoint(c) ==
    CASE c = "\t" -> 9
      [] c = "\n" -> 10
      [] c = "\f" -> 12
      [] c = "\r" -> 13
      [] OTHER -> 31 + (CHOOSE i \in 1..Len(AsciiTable) : AsciiTable[i] = c)

MinOf(S) == CHOOSE x \in S : \A y \in S : x <= y
MaxOf(S) == CHOOSE x \in S : \A y \in S : x >= y

\* str.strip()
Strip(s) ==
    LET keep == {i \in 1..Len(s) : s[i] \notin Whitespace}
    IN  IF keep = {} THEN <<>> ELSE SubSeq(s, MinOf(keep), MaxOf(keep))

\* str.lstrip()
LStrip(s) ==
    LET keep == {i \in 1..Len(s) : s[i] \notin Whitespace}
    IN  IF keep = {} THEN <<>> ELSE SubSeq(s, MinOf(keep), Len(s))

\* str.rstrip()
RStrip(s) ==
    LET keep == {i \in 1..Len(s) : s[i] \notin Whitespace}
    IN  IF keep = {} THEN <<>> ELSE SubSeq(s, 1, MaxOf(keep))

\* s.startswith(p)
StartsWith(s, p) == Len(s) >= Len(p) /\ SubSeq(s, 1, Len(p)) = p

\* s.endswith(p)
EndsWith(s, p) == Len(s) >= Len(p) /\ SubSeq(s, Len(s) - Len(p) + 1, Len(s)) = p

\* s.find(p): the first index (from 1) at which p occurs in s, or 0.
Find(s, p) ==
    LET hits == {i \in 1..(Len(s) - Len(p) + 1) : SubSeq(s, i, i + Len(p) - 1) = p}
    IN  IF hits = {} THEN 0 ELSE MinOf(hits)

\* The concatenation of the texts ss[lo], ..., ss[hi], in this order. The range
\* is halved, which keeps the evaluation shallow for a long sequence.
RECURSIVE ConcatRange(_, _, _)
ConcatRange(ss, lo, hi) ==
    IF lo > hi THEN <<>>
    ELSE IF lo = hi THEN ss[lo]
    ELSE ConcatRange(ss, lo, (lo + hi) \div 2) \o ConcatRange(ss, ((lo + hi) \div 2) + 1, hi)

\* "".join(ss)
Concat(ss) == ConcatRange(ss, 1, Len(ss))

\* sep.join(parts)
Join(parts, sep) ==
    Concat([i \in 1..(2 * Len(parts) - 1) |->
               IF i % 2 = 1 THEN parts[(i + 1) \div 2] ELSE sep])

\* The k-th smallest element of a set of numbers, k from 1.
Kth(S, k) == CHOOSE x \in S : Cardinality({y \in S : y < x}) = k - 1

\* str.splitlines(): a line ends at a line boundary ("\r\n" is one boundary);
\* the text after the last boundary is a line only when it is not empty.
splitlines(text) ==
    LET \* whether the "\n" at i is the second character of a "\r\n"
        InCrLf(i) == text[i] = "\n" /\ i > 1 /\ text[i - 1] = "\r"
        \* the indices at which a boundary starts
        starts == {i \in 1..Len(text) : text[i] \in LineBreaks /\ ~InCrLf(i)}
        n      == Cardinality(starts)
        \* the index at which the boundary that starts at i ends
        EndOf(i) == IF text[i] = "\r" /\ i < Len(text) /\ text[i + 1] = "\n"
                    THEN i + 1 ELSE i
        \* the index at which line k starts
        From(k) == IF k = 1 THEN 1 ELSE EndOf(Kth(starts, k - 1)) + 1
        ended  == [k \in 1..n |-> SubSeq(text, From(k), Kth(starts, k) - 1)]
    IN  IF From(n + 1) <= Len(text)
        THEN Append(ended, SubSeq(text, From(n + 1), Len(text)))
        ELSE ended

\* str(n) for a natural number.
RECURSIVE Str(_)
Str(n) ==
    LET d == SubSeq("0123456789", (n % 10) + 1, (n % 10) + 1)
    IN  IF n < 10 THEN <<d>> ELSE Append(Str(n \div 10), d)

\* One character of repr(s) inside the quote q.
ReprChar(c, q) ==
    CASE c = "\\" -> <<"\\", "\\">>
      [] c = "\t" -> <<"\\", "t">>
      [] c = "\n" -> <<"\\", "n">>
      [] c = "\r" -> <<"\\", "r">>
      [] c = "\f" -> <<"\\", "x", "0", "c">>
      [] c = q    -> <<"\\", c>>
      [] OTHER    -> <<c>>

ReprBody(s, q) == Concat([i \in 1..Len(s) |-> ReprChar(s[i], q)])

\* repr(s), the {s!r} of an f-string: single quotes, unless the text holds a
\* single quote and no double quote.
Repr(s) ==
    LET hasS == \E i \in 1..Len(s) : s[i] = "'"
        hasD == \E i \in 1..Len(s) : s[i] = "\""
        q    == IF hasS /\ ~hasD THEN "\"" ELSE "'"
    IN  <<q>> \o ReprBody(s, q) \o <<q>>

\* a < b for str: lexicographic by code point.
RECURSIVE StrLess(_, _)
StrLess(a, b) ==
    IF b = <<>> THEN FALSE
    ELSE IF a = <<>> THEN TRUE
    ELSE IF Head(a) = Head(b) THEN StrLess(Tail(a), Tail(b))
    ELSE CodePoint(Head(a)) < CodePoint(Head(b))

\* sorted(S) for a set of str.
RECURSIVE Sorted(_)
Sorted(S) ==
    IF S = {} THEN <<>>
    ELSE LET m == CHOOSE x \in S : \A y \in S \ {x} : StrLess(x, y)
         IN  <<m>> \o Sorted(S \ {m})

\* dict assignment d[k] = v on a mapping.
Put(d, k, v) == [x \in (DOMAIN d) \cup {k} |-> IF x = k THEN v ELSE d[x]]

\* raise ValueError(msg): the value a function returns instead of its result.
Raise(kind, msg) == [ok |-> FALSE, kind |-> kind, msg |-> msg]

\* No exception is pending.
NoExc == [ok |-> TRUE]

(***************************************************************************)
(* Rule types                                                              *)
(***************************************************************************)

PAGE_DIRECTIVE == Chars("[[page]]")

\* ParamSpec(name, required, default)
ParamSpec(name, required, default) ==
    [name |-> name, required |-> required, default |-> default]

\* DirectiveRule(name, params, template)
DirectiveRule(name, params, template) ==
    [name |-> name, params |-> params, template |-> template]

\* SubstitutionRule(token, replacement)
SubstitutionRule(token, replacement) ==
    [token |-> token, replacement |-> replacement]

\* PreprocessOptions(continue_on_error, embed_errors)
PreprocessOptions(continue_on_error, embed_errors) ==
    [continue_on_error |-> continue_on_error, embed_errors |-> embed_errors]

(***************************************************************************)
(* CSV-ish parsing helpers                                                 *)
(***************************************************************************)

\* flush_token(): the buffer, stripped, becomes a token; an empty one raises.
flush_token(s, where) ==
    LET tok == Strip(s.buf)
    IN  IF tok = <<>>
        THEN [s EXCEPT !.err = Raise("empty_token",
                  where \o Chars(": empty token in comma-separated list"))]
        ELSE [s EXCEPT !.tokens = Append(@, tok)]

\* A pass that takes a comma for a separator inside a quoted span too: what
\* _split_csvish would come to if it did not read in_quotes at a comma.
csvish_char_unquoted(s, ch, where) ==
    IF ch = "," THEN [flush_token(s, where) EXCEPT !.buf = <<>>]
    ELSE IF s.in_quotes
    THEN IF s.escape
         THEN [s EXCEPT !.buf = IF ch \notin {"\"", "\\"}
                                THEN @ \o <<"\\", ch>>
                                ELSE Append(@, ch),
                        !.escape = FALSE]
         ELSE IF ch = "\\" THEN [s EXCEPT !.escape = TRUE]
         ELSE IF ch = "\"" THEN [s EXCEPT !.in_quotes = FALSE]
         ELSE [s EXCEPT !.buf = Append(@, ch)]
    ELSE IF ch = "\"" THEN [s EXCEPT !.in_quotes = TRUE]
    ELSE [s EXCEPT !.buf = Append(@, ch)]

\* A pass in which a backslash in a quoted span escapes every character: what
\* _split_csvish would come to without "if ch not in ['"', '\\']:
\* buf.append('\\')".
csvish_char_escaping_all(s, ch, where) ==
    IF s.in_quotes
    THEN IF s.escape
         THEN [s EXCEPT !.buf = Append(@, ch), !.escape = FALSE]
         ELSE IF ch = "\\" THEN [s EXCEPT !.escape = TRUE]
         ELSE IF ch = "\"" THEN [s EXCEPT !.in_quotes = FALSE]
         ELSE [s EXCEPT !.buf = Append(@, ch)]
    ELSE IF ch = "\"" THEN [s EXCEPT !.in_quotes = TRUE]
    ELSE IF ch = ","  THEN [flush_token(s, where) EXCEPT !.buf = <<>>]
    ELSE [s EXCEPT !.buf = Append(@, ch)]

\* One pass of the loop "for ch in text" of _split_csvish.
csvish_char(s, ch, where) ==
    IF s.in_quotes
    THEN IF s.escape
         THEN [s EXCEPT !.buf = IF ch \notin {"\"", "\\"}
                                THEN @ \o <<"\\", ch>>
                                ELSE Append(@, ch),
                        !.escape = FALSE]
         ELSE IF ch = "\\" THEN [s EXCEPT !.escape = TRUE]
         ELSE IF ch = "\"" THEN [s EXCEPT !.in_quotes = FALSE]
         ELSE [s EXCEPT !.buf = Append(@, ch)]
    ELSE IF ch = "\"" THEN [s EXCEPT !.in_quotes = TRUE]
    ELSE IF ch = ","  THEN [flush_token(s, where) EXCEPT !.buf = <<>>]
    ELSE [s EXCEPT !.buf = Append(@, ch)]

\* The loop "for ch in text" over text[lo..hi], left when a token raises. The
\* characters are handled in their order; the range is halved, which keeps the
\* evaluation shallow for a long text.
RECURSIVE csvish_loop(_, _, _, _, _)
csvish_loop(text, lo, hi, s, where) ==
    IF lo > hi THEN s
    ELSE IF lo = hi
    THEN (IF s.err.ok THEN csvish_char(s, text[lo], where) ELSE s)
    ELSE csvish_loop(text, ((lo + hi) \div 2) + 1, hi,
                     csvish_loop(text, lo, (lo + hi) \div 2, s, where), where)

\* "return tokens", after the last flush_token().
csvish_return(s) ==
    IF ~s.err.ok THEN s.err ELSE [ok |-> TRUE, tokens |-> s.tokens]

\* _split_csvish after its loop, in the state s the loop ended in.
csvish_end(s, where) ==
    IF ~s.err.ok THEN s.err
    ELSE IF s.in_quotes
    THEN Raise("unterminated_quote",
               where \o Chars(": unterminated double quote in list"))
    ELSE csvish_return(flush_token(
             IF s.escape THEN [s EXCEPT !.buf = Append(@, "\\")] ELSE s, where))

\* _split_csvish(text, where=where): [ok, tokens] or the ValueError raised.
_split_csvish(text, where) ==
    csvish_end(csvish_loop(text, 1, Len(text),
                           [tokens |-> <<>>, buf |-> <<>>, in_quotes |-> FALSE,
                            escape |-> FALSE, err |-> NoExc], where),
               where)

\* _strip_outer_brackets(directive_text, where=where): [ok, inner] or the error.
_strip_outer_brackets(directive_text, where) ==
    LET s     == Strip(directive_text)
        inner == Strip(SubSeq(s, 3, Len(s) - 2))
    IN  IF ~(StartsWith(s, Chars("[[")) /\ EndsWith(s, Chars("]]")))
        THEN Raise("not_a_directive",
                   where \o Chars(": not a directive: ") \o Repr(directive_text))
        ELSE IF inner = <<>>
        THEN Raise("empty_directive",
                   where \o Chars(": empty directive: ") \o Repr(directive_text))
        ELSE [ok |-> TRUE, inner |-> inner]

\* "=" in raw
HasEq(raw) == \E i \in 1..Len(raw) : raw[i] = "="

\* raw.split("=", 1), both halves stripped.
SplitEq(raw) ==
    LET k == MinOf({i \in 1..Len(raw) : raw[i] = "="})
    IN  <<Strip(SubSeq(raw, 1, k - 1)), Strip(SubSeq(raw, k + 1, Len(raw)))>>

(***************************************************************************)
(* Parse config LHS signature and Markdown invocation                      *)
(***************************************************************************)

\* A pass over a parameter that does not look at seen_optional: what
\* _parse_signature_lhs would come to without its order check.
signature_param_unordered(s, raw, lhs, where) ==
    LET pname    == IF HasEq(raw) THEN SplitEq(raw)[1] ELSE Strip(raw)
        pdefault == IF HasEq(raw) THEN SplitEq(raw)[2] ELSE None
    IN  IF pname = <<>>
        THEN [s EXCEPT !.err = Raise("empty_param_name",
                 where \o Chars(": empty parameter name in ") \o Repr(lhs))]
        ELSE IF pname \in s.seen
        THEN [s EXCEPT !.err = Raise("duplicate_param",
                 where \o Chars(": duplicate parameter ") \o Repr(pname)
                       \o Chars(" in ") \o Repr(lhs))]
        ELSE IF pdefault = <<>>
        THEN [s EXCEPT !.err = Raise("empty_default",
                 where \o Chars(": empty default for optional parameter ")
                       \o Repr(pname) \o Chars(" in ") \o Repr(lhs))]
        ELSE [s EXCEPT !.seen = @ \cup {pname},
                       !.seen_optional = @ \/ HasEq(raw),
                       !.params = Append(@, ParamSpec(pname, ~HasEq(raw), pdefault))]

\* One pass of the loop "for raw in parts[1:]" of _parse_signature_lhs.
signature_param(s, raw, lhs, where) ==
    IF HasEq(raw)
    THEN LET pname    == SplitEq(raw)[1]
             pdefault == SplitEq(raw)[2]
         IN  IF pname = <<>>
             THEN [s EXCEPT !.err = Raise("empty_param_name",
                      where \o Chars(": empty parameter name in ") \o Repr(lhs))]
             ELSE IF pname \in s.seen
             THEN [s EXCEPT !.err = Raise("duplicate_param",
                      where \o Chars(": duplicate parameter ") \o Repr(pname)
                            \o Chars(" in ") \o Repr(lhs))]
             ELSE IF pdefault = <<>>
             THEN [s EXCEPT !.err = Raise("empty_default",
                      where \o Chars(": empty default for optional parameter ")
                            \o Repr(pname) \o Chars(" in ") \o Repr(lhs))]
             ELSE [s EXCEPT !.seen = @ \cup {pname},
                            !.seen_optional = TRUE,
                            !.params = Append(@, ParamSpec(pname, FALSE, pdefault))]
    ELSE LET pname == Strip(raw)
         IN  IF pname = <<>>
             THEN [s EXCEPT !.err = Raise("empty_param_name",
                      where \o Chars(": empty parameter name in ") \o Repr(lhs))]
             ELSE IF pname \in s.seen
             THEN [s EXCEPT !.err = Raise("duplicate_param",
                      where \o Chars(": duplicate parameter ") \o Repr(pname)
                            \o Chars(" in ") \o Repr(lhs))]
             ELSE IF s.seen_optional
             THEN [s EXCEPT !.err = Raise("required_after_optional",
                      where \o Chars(": required parameter ") \o Repr(pname)
                            \o Chars(" cannot appear after optional parameters in ")
                            \o Repr(lhs))]
             ELSE [s EXCEPT !.seen = @ \cup {pname},
                            !.params = Append(@, ParamSpec(pname, TRUE, None))]

RECURSIVE signature_loop(_, _, _, _, _)
signature_loop(parts, i, s, lhs, where) ==
    IF ~s.err.ok \/ i > Len(parts) THEN s
    ELSE signature_loop(parts, i + 1, signature_param(s, parts[i], lhs, where), lhs, where)

\* "return name, params", after the loop over the parameters ended in s.
signature_return(name, s) ==
    IF ~s.err.ok THEN s.err
    ELSE [ok |-> TRUE, name |-> name, params |-> s.params]

\* _parse_signature_lhs from "name = parts[0].strip()" on.
signature_parts(lhs, parts, where) ==
    IF ~parts.ok THEN parts
    ELSE IF Strip(parts.tokens[1]) = <<>>
    THEN Raise("empty_name",
               where \o Chars(": empty directive name in ") \o Repr(lhs))
    ELSE signature_return(Strip(parts.tokens[1]),
             signature_loop(parts.tokens, 2,
                            [params |-> <<>>, seen |-> {}, seen_optional |-> FALSE,
                             err |-> NoExc], lhs, where))

\* _parse_signature_lhs from "parts = _split_csvish(inner, where=where)" on.
signature_inner(lhs, inner, where) ==
    IF ~inner.ok THEN inner
    ELSE signature_parts(lhs, _split_csvish(inner.inner, where), where)

\* _parse_signature_lhs(lhs, where=where): [ok, name, params] or the error.
_parse_signature_lhs(lhs, where) ==
    signature_inner(lhs, _strip_outer_brackets(lhs, where), where)

\* One pass of the loop "for raw in parts[1:]" of _parse_invocation.
invocation_arg(s, raw, inner, where) ==
    IF HasEq(raw)
    THEN LET k == SplitEq(raw)[1]
             v == SplitEq(raw)[2]
             shown == Chars(" in [[") \o inner \o Chars("]]")
         IN  IF k = <<>>
             THEN [s EXCEPT !.err = Raise("empty_named_key",
                      where \o Chars(": empty named-arg key") \o shown)]
             ELSE IF v = <<>>
             THEN [s EXCEPT !.err = Raise("empty_named_value",
                      where \o Chars(": empty value for named arg ") \o Repr(k) \o shown)]
             ELSE IF k \in DOMAIN s.named
             THEN [s EXCEPT !.err = Raise("duplicate_named",
                      where \o Chars(": duplicate named arg ") \o Repr(k) \o shown)]
             ELSE [s EXCEPT !.named = Put(@, k, v)]
    ELSE [s EXCEPT !.positional = Append(@, raw)]

RECURSIVE invocation_loop(_, _, _, _, _)
invocation_loop(parts, i, s, inner, where) ==
    IF ~s.err.ok \/ i > Len(parts) THEN s
    ELSE invocation_loop(parts, i + 1, invocation_arg(s, parts[i], inner, where), inner, where)

\* "return name, positional, named", after the loop over the arguments ended
\* in s.
invocation_return(name, s) ==
    IF ~s.err.ok THEN s.err
    ELSE [ok |-> TRUE, name |-> name, positional |-> s.positional, named |-> s.named]

\* _parse_invocation from "name = parts[0].strip()" on.
invocation_parts(inner, parts, where) ==
    IF ~parts.ok THEN parts
    ELSE IF Strip(parts.tokens[1]) = <<>>
    THEN Raise("empty_name",
               where \o Chars(": empty directive name in [[") \o inner \o Chars("]]"))
    ELSE invocation_return(Strip(parts.tokens[1]),
             invocation_loop(parts.tokens, 2,
                             [positional |-> <<>>, named |-> <<>>, err |-> NoExc],
                             inner, where))

\* _parse_invocation(inner, where=where): [ok, name, positional, named] or the error.
_parse_invocation(inner, where) ==
    invocation_parts(inner, _split_csvish(inner, where), where)

(***************************************************************************)
(* Argument resolution + template substitution                             *)
(***************************************************************************)

\* A defaults phase that fills nothing: what _resolve_args would come to
\* without its first loop.
resolve_defaults_skipped(params, i, resolved) == resolved

\* "for p in rule.params: if not p.required and p.default is not None:
\*  resolved[p.name] = p.default"
RECURSIVE resolve_defaults(_, _, _)
resolve_defaults(params, i, resolved) ==
    IF i > Len(params) THEN resolved
    ELSE resolve_defaults(params, i + 1,
             IF ~params[i].required /\ params[i].default # None
             THEN Put(resolved, params[i].name, params[i].default)
             ELSE resolved)

\* A binding of the named arguments that binds nothing: what _resolve_args
\* would come to without its named phase.
resolve_named_dropped(s, named) == s

\* "for k, v in named.items(): resolved[k] = v; assigned.add(k)"
resolve_named(s, named) ==
    [s EXCEPT !.resolved = [k \in (DOMAIN @) \cup (DOMAIN named) |->
                               IF k \in DOMAIN named THEN named[k] ELSE @[k]],
              !.assigned = @ \cup DOMAIN named]

\* A positional fill that does not skip the parameters assigned by name: what
\* _resolve_args would come to without "if p.name in assigned: continue".
RECURSIVE resolve_positional_unskipped(_, _, _, _)
resolve_positional_unskipped(params, i, positional, s) ==
    IF i > Len(params) \/ s.pos_i >= Len(positional) THEN s
    ELSE resolve_positional_unskipped(params, i + 1, positional,
             [s EXCEPT !.resolved = Put(@, params[i].name, positional[s.pos_i + 1]),
                       !.assigned = @ \cup {params[i].name},
                       !.pos_i = @ + 1])

\* The positional fill: "for p in rule.params", which breaks when the positional
\* arguments are used up and skips the parameters assigned by name.
RECURSIVE resolve_positional(_, _, _, _)
resolve_positional(params, i, positional, s) ==
    IF i > Len(params) \/ s.pos_i >= Len(positional) THEN s
    ELSE IF params[i].name \in s.assigned
    THEN resolve_positional(params, i + 1, positional, s)
    ELSE resolve_positional(params, i + 1, positional,
             [s EXCEPT !.resolved = Put(@, params[i].name, positional[s.pos_i + 1]),
                       !.assigned = @ \cup {params[i].name},
                       !.pos_i = @ + 1])

\* A list of the missing parameters that stops at the first: what
\* _resolve_args would come to if it reported one missing parameter only.
missing_required_first(params, resolved) ==
    LET miss == SelectSeq(params, LAMBDA p : p.required /\ p.name \notin DOMAIN resolved)
    IN  [i \in 1..(IF miss = <<>> THEN 0 ELSE 1) |-> miss[i].name]

\* [p.name for p in rule.params if p.required and p.name not in resolved]
missing_required(params, resolved) ==
    LET miss == SelectSeq(params, LAMBDA p : p.required /\ p.name \notin DOMAIN resolved)
    IN  [i \in 1..Len(miss) |-> miss[i].name]

\* _resolve_args from "if pos_i < len(positional)" on, in the state s the
\* positional fill ended in.
resolve_check(rule, positional, s, where) ==
    LET missing == missing_required(rule.params, s.resolved)
    IN  IF s.pos_i < Len(positional)
        THEN Raise("too_many_positional",
                   where \o Chars(": too many positional args for ") \o rule.name
                         \o Chars(" (got ") \o Str(Len(positional))
                         \o Chars(", signature has ") \o Str(Len(rule.params))
                         \o Chars(")"))
        ELSE IF missing # <<>>
        THEN Raise("missing_required",
                   where \o Chars(": missing required arg(s) for ") \o rule.name
                         \o Chars(": ") \o Join(missing, Chars(", ")))
        ELSE [ok |-> TRUE, values |-> s.resolved]

\* A resolution that looks for undeclared named keys last: what _resolve_args
\* would come to with its first check moved behind the other two.
_resolve_args_unknown_last(rule, positional, named, where) ==
    LET param_set == {rule.params[i].name : i \in 1..Len(rule.params)}
        unknown   == Sorted((DOMAIN named) \ param_set)
        checked   == resolve_check(rule, positional,
                         resolve_positional(rule.params, 1, positional,
                             resolve_named([resolved |-> resolve_defaults(rule.params, 1, <<>>),
                                            assigned |-> {}, pos_i |-> 0], named)),
                         where)
    IN  IF ~checked.ok THEN checked
        ELSE IF unknown # <<>>
        THEN Raise("unknown_named",
                   where \o Chars(": unknown named arg(s) for ") \o rule.name
                         \o Chars(": ") \o Join(unknown, Chars(", ")))
        ELSE checked

\* _resolve_args(rule, positional, named, where=where): [ok, values] or the error.
_resolve_args(rule, positional, named, where) ==
    LET param_set == {rule.params[i].name : i \in 1..Len(rule.params)}
        unknown   == Sorted((DOMAIN named) \ param_set)
    IN  IF unknown # <<>>
        THEN Raise("unknown_named",
                   where \o Chars(": unknown named arg(s) for ") \o rule.name
                         \o Chars(": ") \o Join(unknown, Chars(", ")))
        ELSE resolve_check(rule, positional,
                 resolve_positional(rule.params, 1, positional,
                     resolve_named([resolved |-> resolve_defaults(rule.params, 1, <<>>),
                                    assigned |-> {}, pos_i |-> 0], named)),
                 where)

\* The characters [A-Za-z_] and [A-Za-z0-9_] of PLACEHOLDER_RE.
IdentStart == Lower \cup Upper \cup {"_"}
IdentChar  == IdentStart \cup Digit

\* PLACEHOLDER_RE matched at index i of the text: the index of the closing
\* brace of "${identifier}", or 0 when the pattern does not match there.
PLACEHOLDER_RE(text, i) ==
    IF ~(i + 3 <= Len(text) /\ text[i] = "$" /\ text[i + 1] = "{"
         /\ text[i + 2] \in IdentStart)
    THEN 0
    ELSE LET last == MaxOf({j \in (i + 2)..Len(text) :
                              \A k \in (i + 2)..j : text[k] \in IdentChar})
         IN  IF last + 1 <= Len(text) /\ text[last + 1] = "}" THEN last + 1 ELSE 0

\* A substitution that stops at the first placeholder without a value: what
\* _substitute_placeholders would come to if repl raised instead of noting
\* the name and going on.
RECURSIVE substitute_loop_first(_, _, _, _)
substitute_loop_first(template, i, vals, s) ==
    LET found == {j \in i..Len(template) : PLACEHOLDER_RE(template, j) # 0}
        j     == MinOf(found)
        close == PLACEHOLDER_RE(template, j)
        k     == SubSeq(template, j + 2, close - 1)
        s1    == [s EXCEPT !.out = @ \o SubSeq(template, i, j - 1)]
    IN  IF found = {}
        THEN [s EXCEPT !.out = @ \o SubSeq(template, i, Len(template))]
        ELSE IF k \notin DOMAIN vals
        THEN [s1 EXCEPT !.unknown = @ \cup {k}]
        ELSE substitute_loop_first(template, close + 1, vals,
                 [s1 EXCEPT !.out = @ \o vals[k]])

\* PLACEHOLDER_RE.sub(repl, template) from index i on: the matches from left
\* to right, none overlapping, the text between them copied; repl keeps the
\* text of a placeholder that has no value and notes its name.
RECURSIVE substitute_loop(_, _, _, _)
substitute_loop(template, i, vals, s) ==
    LET found == {j \in i..Len(template) : PLACEHOLDER_RE(template, j) # 0}
        j     == MinOf(found)
        close == PLACEHOLDER_RE(template, j)
        k     == SubSeq(template, j + 2, close - 1)
        s1    == [s EXCEPT !.out = @ \o SubSeq(template, i, j - 1)]
    IN  IF found = {}
        THEN [s EXCEPT !.out = @ \o SubSeq(template, i, Len(template))]
        ELSE IF k \notin DOMAIN vals
        THEN substitute_loop(template, close + 1, vals,
                 [s1 EXCEPT !.out = @ \o SubSeq(template, j, close),
                            !.unknown = @ \cup {k}])
        ELSE substitute_loop(template, close + 1, vals,
                 [s1 EXCEPT !.out = @ \o vals[k]])

\* _substitute_placeholders from "if unknown" on, after the substitution
\* ended in s.
substitute_return(s, where) ==
    IF s.unknown # {}
    THEN Raise("unknown_placeholder",
               where \o Chars(": template references unknown placeholder(s): ")
                     \o Join(Sorted(s.unknown), Chars(", ")))
    ELSE [ok |-> TRUE, text |-> s.out]

\* _substitute_placeholders(template, values, where=where): [ok, text] or the error.
_substitute_placeholders(template, vals, where) ==
    substitute_return(
        substitute_loop(template, 1, vals, [out |-> <<>>, unknown |-> {}]), where)

(***************************************************************************)
(* Embedded error formatting                                               *)
(***************************************************************************)

\* _format_embedded_error(where, message)
_format_embedded_error(where, message) ==
    LET one_line == Strip(Join(splitlines(message), Chars(" ")))
    IN  Join(<< Chars("> **BUILD ERROR**"),
                Chars("> **Where:** ") \o where,
                Chars("> **Message:** ") \o one_line,
                Chars("> (directive left unchanged)"),
                <<>> >>, Chars("\n"))

(***************************************************************************)
(* Config parsing                                                          *)
(***************************************************************************)

DEFAULT_SUBST_CONFIG == Chars("tools/preprocess.conf")

\* The opening and closing marker of a fenced block: three grave accents.
FENCE == <<Backtick, Backtick, Backtick>>

FILE_MARKER == Chars("@file:")

\* f"{config_path}:{lineno}"
ConfigWhere(n) == DEFAULT_SUBST_CONFIG \o Chars(":") \o Str(n)

\* (base_dir / rel).resolve(), for a relative path without "." or ".." parts
\* and a working directory /book.
IncPath(rel) == Chars("/book/tools/") \o rel

\* _split_config_assignment(line, where=where): [ok, lhs, rhs] or the error.
_split_config_assignment(line, where) ==
    LET close == Find(line, Chars("]]"))
        lhs   == Strip(SubSeq(line, 1, close + 1))
        rest  == LStrip(SubSeq(line, close + 2, Len(line)))
        rhs   == Strip(Tail(rest))
    IN  IF close = 0
        THEN Raise("no_lhs", where \o Chars(": expected directive LHS ending with ']]': ")
                                  \o Repr(line))
        ELSE IF ~StartsWith(rest, Chars("="))
        THEN Raise("no_equals", where \o Chars(": expected '=' after directive LHS: ")
                                     \o Repr(line))
        ELSE IF rhs = <<>>
        THEN Raise("empty_rhs", where \o Chars(": empty RHS for ") \o Repr(lhs))
        ELSE [ok |-> TRUE, lhs |-> lhs, rhs |-> rhs]

\* A fenced block closed by any line that is the marker once stripped: what
\* the loop would come to with "if lines[i].strip() == FENCE".
config_rhs_stripped_closing(cfg_lines, i, lhs, rhs, files) ==
    IF StartsWith(rhs, FENCE)
    THEN LET closing == {j \in (i + 1)..Len(cfg_lines) : Strip(cfg_lines[j]) = FENCE}
             j       == MinOf(closing)
         IN  IF closing = {}
             THEN Raise("unterminated_fence",
                        ConfigWhere(i) \o Chars(": unterminated fenced block for ")
                        \o Repr(lhs) \o Chars(" (expected closing line ") \o FENCE
                        \o Chars(")"))
             ELSE [ok |-> TRUE, next |-> j + 1,
                   template |-> Join(SubSeq(cfg_lines, i + 1, j - 1), Chars("\n"))]
    ELSE IF StartsWith(rhs, FILE_MARKER)
    THEN LET rel == Strip(SubSeq(rhs, Len(FILE_MARKER) + 1, Len(rhs)))
         IN  IF rel = <<>>
             THEN Raise("file_without_path",
                        ConfigWhere(i) \o Chars(": @file: requires a path for ")
                        \o Repr(lhs))
             ELSE IF rel \notin DOMAIN files
             THEN Raise("include_not_found",
                        ConfigWhere(i) \o Chars(": include file not found for ")
                        \o Repr(lhs) \o Chars(": ") \o IncPath(rel))
             ELSE [ok |-> TRUE, next |-> i + 1, template |-> files[rel]]
    ELSE [ok |-> TRUE, next |-> i + 1, template |-> rhs]

\* The right-hand side of the entry that opens at line i (lineno = i):
\* [ok, template, next] with next the line the outer loop goes on with, or
\* the error.
config_rhs(cfg_lines, i, lhs, rhs, files) ==
    IF StartsWith(rhs, FENCE)
    THEN LET closing == {j \in (i + 1)..Len(cfg_lines) : cfg_lines[j] = FENCE}
             j       == MinOf(closing)
         IN  IF closing = {}
             THEN Raise("unterminated_fence",
                        ConfigWhere(i) \o Chars(": unterminated fenced block for ")
                        \o Repr(lhs) \o Chars(" (expected closing line ") \o FENCE
                        \o Chars(")"))
             ELSE [ok |-> TRUE, next |-> j + 1,
                   template |-> Join(SubSeq(cfg_lines, i + 1, j - 1), Chars("\n"))]
    ELSE IF StartsWith(rhs, FILE_MARKER)
    THEN LET rel == Strip(SubSeq(rhs, Len(FILE_MARKER) + 1, Len(rhs)))
         IN  IF rel = <<>>
             THEN Raise("file_without_path",
                        ConfigWhere(i) \o Chars(": @file: requires a path for ")
                        \o Repr(lhs))
             ELSE IF rel \notin DOMAIN files
             THEN Raise("include_not_found",
                        ConfigWhere(i) \o Chars(": include file not found for ")
                        \o Repr(lhs) \o Chars(": ") \o IncPath(rel))
             ELSE [ok |-> TRUE, next |-> i + 1, template |-> files[rel]]
    ELSE [ok |-> TRUE, next |-> i + 1, template |-> rhs]

\* token in subst_rules, for the dict kept as the sequence of its rules.
HasToken(rules, token) == \E k \in 1..Len(rules) : rules[k].token = token

\* A registration that gives every directive a substitution rule: what
\* _parse_subst_config would come to without "if not params".
entry_register_every_token(s, sig, body) ==
    LET token == Chars("[[") \o sig.name \o Chars("]]")
    IN  IF ~body.ok THEN [s EXCEPT !.err = body]
        ELSE IF sig.name \in DOMAIN s.directive_rules
        THEN [s EXCEPT !.err = Raise("duplicate_directive",
                 ConfigWhere(s.i) \o Chars(": duplicate directive name ")
                 \o Repr(sig.name))]
        ELSE IF HasToken(s.subst_rules, token)
        THEN [s EXCEPT !.err = Raise("duplicate_token",
                 ConfigWhere(s.i) \o Chars(": duplicate token ") \o Repr(token))]
        ELSE [s EXCEPT
                 !.i = body.next,
                 !.directive_rules =
                     Put(@, sig.name, DirectiveRule(sig.name, sig.params, body.template)),
                 !.subst_rules = Append(@, SubstitutionRule(token, body.template))]

\* One pass of the loop of _parse_subst_config from "if name in
\* directive_rules" on: the entry is registered, or is a duplicate.
entry_register(s, sig, body) ==
    LET token == Chars("[[") \o sig.name \o Chars("]]")
    IN  IF ~body.ok THEN [s EXCEPT !.err = body]
        ELSE IF sig.name \in DOMAIN s.directive_rules
        THEN [s EXCEPT !.err = Raise("duplicate_directive",
                 ConfigWhere(s.i) \o Chars(": duplicate directive name ")
                 \o Repr(sig.name))]
        ELSE IF sig.params = <<>> /\ HasToken(s.subst_rules, token)
        THEN [s EXCEPT !.err = Raise("duplicate_token",
                 ConfigWhere(s.i) \o Chars(": duplicate token ") \o Repr(token))]
        ELSE [s EXCEPT
                 !.i = body.next,
                 !.directive_rules =
                     Put(@, sig.name, DirectiveRule(sig.name, sig.params, body.template)),
                 !.subst_rules =
                     IF sig.params = <<>>
                     THEN Append(@, SubstitutionRule(token, body.template))
                     ELSE @]

\* The same pass from the right-hand side on, for the signature sig.
entry_signature(cfg_lines, s, files, asg, sig) ==
    IF ~sig.ok THEN [s EXCEPT !.err = sig]
    ELSE entry_register(s, sig, config_rhs(cfg_lines, s.i, asg.lhs, asg.rhs, files))

\* The same pass from "name, params = _parse_signature_lhs(lhs, where=where)"
\* on, for the assignment asg.
entry_assignment(cfg_lines, s, files, asg) ==
    IF ~asg.ok THEN [s EXCEPT !.err = asg]
    ELSE entry_signature(cfg_lines, s, files, asg,
                         _parse_signature_lhs(asg.lhs, ConfigWhere(s.i)))

\* One pass of the loop "while i < len(lines)" of _parse_subst_config, at the
\* line s.i (counted from 1): the state with i moved on, or with the error.
config_entry(cfg_lines, s, files) ==
    LET line == Strip(cfg_lines[s.i])
    IN  IF line = <<>> \/ StartsWith(line, Chars("#"))
        THEN [s EXCEPT !.i = s.i + 1]
        ELSE entry_assignment(cfg_lines, s, files,
                              _split_config_assignment(line, ConfigWhere(s.i)))

RECURSIVE config_loop(_, _, _)
config_loop(cfg_lines, s, files) ==
    IF ~s.err.ok \/ s.i > Len(cfg_lines) THEN s
    ELSE config_loop(cfg_lines, config_entry(cfg_lines, s, files), files)

\* "return subst_rules, directive_rules", after the loop ended in s.
config_return(s) ==
    IF ~s.err.ok THEN s.err
    ELSE [ok |-> TRUE, subst_rules |-> s.subst_rules,
          directive_rules |-> s.directive_rules]

\* A parser for which a missing file is an error: what _parse_subst_config
\* would come to without "if not config_path.exists(): return {}, {}".
_parse_subst_config_missing_fatal(config, files) ==
    IF config = None
    THEN Raise("config_not_found",
               Chars("[Errno 2] No such file or directory: '")
               \o DEFAULT_SUBST_CONFIG \o Chars("'"))
    ELSE config_return(
             config_loop(splitlines(config),
                         [i |-> 1, subst_rules |-> <<>>, directive_rules |-> <<>>,
                          err |-> NoExc], files))

\* _parse_subst_config(config_path), for the content of the file at config_path
\* (None: no such file) and the files an @file: entry can name:
\* [ok, subst_rules, directive_rules] or the error.
_parse_subst_config(config, files) ==
    IF config = None
    THEN [ok |-> TRUE, subst_rules |-> <<>>, directive_rules |-> <<>>]
    ELSE config_return(
             config_loop(splitlines(config),
                         [i |-> 1, subst_rules |-> <<>>, directive_rules |-> <<>>,
                          err |-> NoExc], files))

(***************************************************************************)
(* Simple sed-like substitution (global)                                   *)
(***************************************************************************)

\* text.replace(token, replacement), token not empty: the occurrences from
\* left to right, none overlapping.
RECURSIVE Replace(_, _, _)
Replace(text, token, replacement) ==
    LET at == Find(text, token)
    IN  IF at = 0 THEN text
        ELSE SubSeq(text, 1, at - 1) \o replacement
             \o Replace(SubSeq(text, at + Len(token), Len(text)), token, replacement)

RECURSIVE sed_loop(_, _, _)
sed_loop(text, rules, k) ==
    IF k > Len(rules) THEN text
    ELSE sed_loop(Replace(text, rules[k].token, rules[k].replacement), rules, k + 1)

\* A global substitution that leaves the text alone: what preprocess_file
\* would come to without the replacement of the tokens.
apply_sed_like_substitutions_skipped(md_text, rules) == md_text

\* apply_sed_like_substitutions(md_text, rules)
apply_sed_like_substitutions(md_text, rules) ==
    IF rules = <<>> THEN md_text
    ELSE RStrip(sed_loop(md_text, rules, 1))

(***************************************************************************)
(* Page directive handling                                                 *)
(***************************************************************************)

\* f'<section class="page" data-page="{page_num}">'
SectionOpen(page_num) ==
    Chars("<section class=\"page\" data-page=\"") \o Str(page_num) \o Chars("\">")

SectionClose == Chars("</section>")

\* A sectioning loop that never moves the page counter on: what
\* preprocess_text_add_pages would come to without "page_num += 1".
RECURSIVE pages_loop_unnumbered(_, _, _)
pages_loop_unnumbered(md_lines, i, s) ==
    IF i > Len(md_lines) THEN s
    ELSE IF Strip(md_lines[i]) = PAGE_DIRECTIVE
    THEN pages_loop_unnumbered(md_lines, i + 1,
             [s EXCEPT !.out = @ \o << <<>>, SectionClose, <<>>,
                                       SectionOpen(s.page_num), <<>> >>])
    ELSE pages_loop_unnumbered(md_lines, i + 1,
                               [s EXCEPT !.out = Append(@, md_lines[i])])

\* A sectioning loop that takes only the bare marker for a page break: what
\* preprocess_text_add_pages would come to with the test
\* "line == PAGE_DIRECTIVE".
RECURSIVE pages_loop_exact(_, _, _)
pages_loop_exact(md_lines, i, s) ==
    IF i > Len(md_lines) THEN s
    ELSE IF md_lines[i] = PAGE_DIRECTIVE
    THEN pages_loop_exact(md_lines, i + 1,
             [page_num |-> s.page_num + 1,
              out |-> s.out \o << <<>>, SectionClose, <<>>,
                                  SectionOpen(s.page_num + 1), <<>> >>])
    ELSE pages_loop_exact(md_lines, i + 1, [s EXCEPT !.out = Append(@, md_lines[i])])

\* The loop "for line in lines" of preprocess_text_add_pages.
RECURSIVE pages_loop(_, _, _)
pages_loop(md_lines, i, s) ==
    IF i > Len(md_lines) THEN s
    ELSE IF Strip(md_lines[i]) = PAGE_DIRECTIVE
    THEN pages_loop(md_lines, i + 1,
             [page_num |-> s.page_num + 1,
              out |-> s.out \o << <<>>, SectionClose, <<>>,
                                  SectionOpen(s.page_num + 1), <<>> >>])
    ELSE pages_loop(md_lines, i + 1, [s EXCEPT !.out = Append(@, md_lines[i])])

\* The list out of preprocess_text_add_pages before it is joined.
pages_lines(md_text) ==
    pages_loop(splitlines(md_text), 1,
               [page_num |-> 1, out |-> <<SectionOpen(1), <<>> >>]).out
        \o << <<>>, SectionClose >>

\* preprocess_text_add_pages(md_text)
preprocess_text_add_pages(md_text) ==
    Join(pages_lines(md_text), Chars("\n")) \o Chars("\n")

(***************************************************************************)
(* Whole-line directive expansion                                          *)
(***************************************************************************)

\* WHOLE_LINE_DIRECTIVE_RE.match(line), ^\s*(\[\[[^\]]+\]\])\s*$ : group 1 of
\* the match, or None. Neither "[[" nor "]]" is whitespace, so the group is
\* the stripped line.
WHOLE_LINE_DIRECTIVE_RE(line) ==
    LET s == Strip(line)
    IN  IF /\ Len(s) >= 5
           /\ StartsWith(s, Chars("[["))
           /\ EndsWith(s, Chars("]]"))
           /\ \A k \in 3..(Len(s) - 2) : s[k] # "]"
        THEN s
        ELSE None

\* The path preprocess_file passes as source_path.
\* The name of the document preprocess_file is called on: the document of
\* md_files the loop of preprocess_all is at, or book.md when preprocess_file
\* is called on its own.
SRC_NAME == IF file_i = 0 THEN Chars("book.md") ELSE md_files[file_i].name

\* src_path, and dst_path = preprocess_dir / src.name
SRC_PATH == Chars("src/") \o SRC_NAME

\* f"{source_path}:{lineno}"
Where(n) == SRC_PATH \o Chars(":") \o Str(n)

\* What the try block comes to.
Outcome(kind, exc, vals, expanded) ==
    [kind |-> kind, exc |-> exc, values |-> vals, expanded |-> expanded]

\* A lookup that finds no rule: what the expander would come to if it took
\* every name for unregistered.
IsRegistered_never(name, rules) == FALSE

\* directive_rules.get(name) is not None
IsRegistered(name, rules) == name \in DOMAIN rules

\* The try block after the substitution.
try_substituted(vals, text) ==
    IF ~text.ok THEN Outcome("error", text, vals, <<>>)
    ELSE Outcome("expanded", NoExc, vals, text.text)

\* The try block from "expanded = _substitute_placeholders(...)" on.
try_resolved(rule, vals, where) ==
    IF ~vals.ok THEN Outcome("error", vals, <<>>, <<>>)
    ELSE try_substituted(vals.values,
                         _substitute_placeholders(rule.template, vals.values, where))

\* A try block in which an unregistered name is an error: what the expander
\* would come to without "if rule is None: out.append(line); continue".
try_invocation_strict(inv, where, rules) ==
    IF ~inv.ok THEN Outcome("error", inv, <<>>, <<>>)
    ELSE IF ~IsRegistered(inv.name, rules)
    THEN Outcome("error",
                 Raise("unknown_directive",
                       where \o Chars(": unknown directive ") \o inv.name),
                 <<>>, <<>>)
    ELSE try_resolved(rules[inv.name],
                      _resolve_args(rules[inv.name], inv.positional, inv.named, where),
                      where)

\* The try block from "rule = directive_rules.get(name)" on.
try_invocation(inv, where, rules) ==
    IF ~inv.ok THEN Outcome("error", inv, <<>>, <<>>)
    ELSE IF ~IsRegistered(inv.name, rules)
    THEN Outcome("unrecognized", NoExc, <<>>, <<>>)
    ELSE try_resolved(rules[inv.name],
                      _resolve_args(rules[inv.name], inv.positional, inv.named, where),
                      where)

\* The try block from "name, positional, named = _parse_invocation(...)" on.
try_inner(inner, where, rules) ==
    IF ~inner.ok THEN Outcome("error", inner, <<>>, <<>>)
    ELSE try_invocation(_parse_invocation(inner.inner, where), where, rules)

\* The try block of the loop of expand_whole_line_directives for the matched
\* text: "unrecognized" (the line is left as it is), "expanded" (with the
\* resolved values and the substituted template) or "error" (with the
\* exception).
try_expand(directive_text, where, rules) ==
    try_inner(_strip_outer_brackets(directive_text, where), where, rules)

\* An except handler that appends the error block alone: what the expander
\* would come to without "out.append(line)" in the handler.
error_lines_without_line(line, where, exc, opts) ==
    IF opts.embed_errors
    THEN splitlines(_format_embedded_error(where, exc.msg))
    ELSE <<>>

\* An except handler that keeps an empty line after the block: what the
\* expander would come to if it split the block at every "\n".
error_lines_blank_kept(line, where, exc, opts) ==
    (IF opts.embed_errors
     THEN splitlines(_format_embedded_error(where, exc.msg)) \o << <<>> >>
     ELSE <<>>) \o <<line>>

\* The lines the except handler appends when it goes on: the error block when
\* errors are embedded, then the line itself.
error_lines(line, where, exc, opts) ==
    (IF opts.embed_errors
     THEN splitlines(_format_embedded_error(where, exc.msg))
     ELSE <<>>) \o <<line>>

\* An expansion whose lines are matched again and dropped when they are
\* candidates: what the expander would come to if it looked at the lines of a
\* template a second time.
expanded_lines_rematched(expanded) ==
    SelectSeq(splitlines(expanded), LAMBDA l : WHOLE_LINE_DIRECTIVE_RE(l) = None)

\* The lines a successful expansion appends.
expanded_lines(expanded) == splitlines(expanded)

\* n copies of a tag, for origin.
Tags(n, tag) == [i \in 1..n |-> tag]

\* What one pass of the loop does: the lines appended to out (with how each
\* came about), what the try block came to, and whether the exception is
\* raised again.
Pass(append, tags, raise, res) ==
    [append |-> append, tags |-> tags, raise |-> raise, res |-> res]

\* A pass that goes on after every error: what the expander would come to if
\* it did not read continue_on_error.
pass_tried_continuing(line, where, res, opts) ==
    IF res.kind = "unrecognized"
    THEN Pass(<<line>>, <<"unrecognized">>, FALSE, res)
    ELSE IF res.kind = "expanded"
    THEN Pass(expanded_lines(res.expanded),
              Tags(Len(expanded_lines(res.expanded)), "template"), FALSE, res)
    ELSE Pass(error_lines(line, where, res.exc, opts),
              Tags(Len(error_lines(line, where, res.exc, opts)) - 1, "error_block")
                  \o <<"error_line">>,
              FALSE, res)

\* A pass that appends an unrecognized line twice: what the expander would
\* come to if "out.append(line)" ran again for a line it leaves alone.
pass_tried_doubling(line, where, res, opts) ==
    IF res.kind = "unrecognized"
    THEN Pass(<<line, line>>, <<"unrecognized", "unrecognized">>, FALSE, res)
    ELSE IF res.kind = "expanded"
    THEN Pass(expanded_lines(res.expanded),
              Tags(Len(expanded_lines(res.expanded)), "template"), FALSE, res)
    ELSE IF opts.continue_on_error
    THEN Pass(error_lines(line, where, res.exc, opts),
              Tags(Len(error_lines(line, where, res.exc, opts)) - 1, "error_block")
                  \o <<"error_line">>,
              FALSE, res)
    ELSE Pass(<<>>, <<>>, TRUE, res)

\* The pass for a line that matched, after the try block came to res.
pass_tried(line, where, res, opts) ==
    IF res.kind = "unrecognized"
    THEN Pass(<<line>>, <<"unrecognized">>, FALSE, res)
    ELSE IF res.kind = "expanded"
    THEN Pass(expanded_lines(res.expanded),
              Tags(Len(expanded_lines(res.expanded)), "template"), FALSE, res)
    ELSE IF opts.continue_on_error
    THEN Pass(error_lines(line, where, res.exc, opts),
              Tags(Len(error_lines(line, where, res.exc, opts)) - 1, "error_block")
                  \o <<"error_line">>,
              FALSE, res)
    ELSE Pass(<<>>, <<>>, TRUE, res)

\* A pass that drops the blank lines: what the expander would come to if it
\* appended a line that did not match only when the line has text.
pass_match_dropping_blank(line, m, where, rules, opts) ==
    IF m = None
    THEN Pass(IF line = <<>> THEN <<>> ELSE <<line>>,
              IF line = <<>> THEN <<>> ELSE <<"copied">>,
              FALSE, Outcome("no_match", NoExc, <<>>, <<>>))
    ELSE pass_tried(line, where, try_expand(m, where, rules), opts)

\* The pass from "if not m" on, for m = WHOLE_LINE_DIRECTIVE_RE.match(line).
pass_match(line, m, where, rules, opts) ==
    IF m = None
    THEN Pass(<<line>>, <<"copied">>, FALSE, Outcome("no_match", NoExc, <<>>, <<>>))
    ELSE pass_tried(line, where, try_expand(m, where, rules), opts)

\* One pass of the loop "for lineno, line in enumerate(lines, start=1)".
loop_pass(line, n, rules, opts) ==
    pass_match(line, WHOLE_LINE_DIRECTIVE_RE(line), Where(n), rules, opts)

\* "\n".join(out) + ("\n" if md_text.endswith("\n") else "")
expand_result(out_lines, md_text) ==
    Join(out_lines, Chars("\n"))
        \o (IF EndsWith(md_text, Chars("\n")) THEN Chars("\n") ELSE <<>>)

(***************************************************************************)
(* The expander as a function of a text                                    *)
(***************************************************************************)

\* The locals of expand_whole_line_directives after the pass p: out and
\* errors, and the exception when the pass raises.
expand_step(s, p) ==
    [out    |-> s.out \o p.append,
     errors |-> IF p.res.kind = "error" THEN s.errors + 1 ELSE s.errors,
     err    |-> IF p.raise THEN p.res.exc ELSE NoExc]

\* The loop "for lineno, line in enumerate(lines, start=1)" from line n on.
RECURSIVE expand_loop(_, _, _, _, _)
expand_loop(md_lines, n, rules, opts, s) ==
    IF n > Len(md_lines) \/ ~s.err.ok THEN s
    ELSE expand_loop(md_lines, n + 1, rules, opts,
                     expand_step(s, loop_pass(md_lines[n], n, rules, opts)))

\* "return result, errors", or the exception the loop raised.
expand_return(s, md_text) ==
    IF ~s.err.ok THEN s.err
    ELSE [ok |-> TRUE, text |-> expand_result(s.out, md_text), errors |-> s.errors]

\* expand_whole_line_directives(md_text, directive_rules,
\* source_path=src_path, options=options): [ok, text, errors] or the error.
expand_whole_line_directives(md_text, rules, opts) ==
    expand_return(
        expand_loop(splitlines(md_text), 1, rules, opts,
                    [out |-> <<>>, errors |-> 0, err |-> NoExc]),
        md_text)

(***************************************************************************)
(* File watching (tools/build/watch.py)                                    *)
(***************************************************************************)

\* DebouncedRunner.min_interval_s, 0.25 s, in twentieths of a second.
min_interval_s == 5

\* str.lower() on the letters of a path.
lower(s) ==
    LET upper == Chars("ABCDEFGHIJKLMNOPQRSTUVWXYZ")
        small == Chars("abcdefghijklmnopqrstuvwxyz")
        Low(ch) == IF \E k \in 1..26 : upper[k] = ch
                   THEN small[CHOOSE k \in 1..26 : upper[k] = ch]
                   ELSE ch
    IN  [i \in 1..Len(s) |-> Low(s[i])]

\* A file system event as the handler reads it, with the method it was
\* delivered to and the time of the delivery.
Delivered(method, ev, time) ==
    [method |-> method, is_directory |-> ev.is_directory, src_path |-> ev.src_path,
     time |-> time]

\* No event was delivered yet.
NoEvent == [method |-> "none", is_directory |-> FALSE, src_path |-> <<>>, time |-> 0]

\* DebouncedRunner.__init__ and WatchHandler.__init__, at a time when the
\* clock is at least min_interval_s past the epoch.
NewWatch ==
    /\ clock = min_interval_s
    /\ _last_run = 0
    /\ event = NoEvent
    /\ on_change_calls = <<>>
    /\ last_md_event = 0

\* DebouncedRunner.should_run() at the time now: what it returns and the
\* value it leaves in _last_run.
should_run(now, last_run) ==
    IF now - last_run < min_interval_s
    THEN [result |-> FALSE, _last_run |-> last_run]
    ELSE [result |-> TRUE, _last_run |-> now]

\* The event passes the two early returns of on_modified.
IsMarkdownFile(ev) ==
    /\ ~ev.is_directory
    /\ EndsWith(lower(ev.src_path), Chars(".md"))

\* WatchHandler.on_modified(event), called through the method named.
on_modified(method, ev) ==
    /\ event' = Delivered(method, ev, clock)
    /\ last_md_event' = IF IsMarkdownFile(ev) THEN clock ELSE last_md_event
    /\ _last_run' = IF IsMarkdownFile(ev)
                    THEN should_run(clock, _last_run)._last_run
                    ELSE _last_run
    /\ on_change_calls' = IF IsMarkdownFile(ev) /\ should_run(clock, _last_run).result
                          THEN Append(on_change_calls, clock)
                          ELSE on_change_calls
    /\ UNCHANGED clock
    /\ UNCHANGED preprocessVars

\* WatchHandler.on_created(event): "self.on_modified(event)".
on_created(ev) == on_modified("on_created", ev)

(***************************************************************************)
(* Orchestration: preprocess_file as a state machine                       *)
(***************************************************************************)

\* A preprocess_file that goes on with an empty registry after a configuration
\* error when continue_on_error is set: what it would come to if the option
\* governed configuration errors too.
ParsedConfig_suppressed(cfg) ==
    IF ~cfg.ok /\ ~options.continue_on_error
    THEN /\ pc' = "raised"
         /\ raisedExc' = cfg
         /\ UNCHANGED <<subst_rules, directive_rules, lines>>
    ELSE /\ pc' = "expand"
         /\ subst_rules' = IF cfg.ok THEN cfg.subst_rules ELSE <<>>
         /\ directive_rules' = IF cfg.ok THEN cfg.directive_rules ELSE <<>>
         /\ lines' = splitlines(srcFile)
         /\ UNCHANGED raisedExc

\* preprocess_file from the result cfg of _parse_subst_config to the first
\* line of the expander: a configuration error leaves preprocess_file.
ParsedConfig(cfg) ==
    IF ~cfg.ok
    THEN /\ pc' = "raised"
         /\ raisedExc' = cfg
         /\ UNCHANGED <<subst_rules, directive_rules, lines>>
    ELSE /\ pc' = "expand"
         /\ subst_rules' = cfg.subst_rules
         /\ directive_rules' = cfg.directive_rules
         /\ lines' = splitlines(srcFile)
         /\ UNCHANGED raisedExc

\* preprocess_file up to the call of the expander: the source is read, the
\* configuration is parsed, and the expander splits the text into lines.
ReadAndParseConfig ==
    /\ pc = "start"
    /\ IF srcFile = None
       THEN /\ pc' = "raised"
            /\ raisedExc' = Raise("source_not_found",
                                  Chars("Markdown file not found: ") \o SRC_PATH)
            /\ UNCHANGED <<subst_rules, directive_rules, lines>>
       ELSE ParsedConfig(_parse_subst_config(configFile, includeFiles))
    /\ UNCHANGED <<configFile, includeFiles, srcFile, options, lineno, out, origin, errors,
                   tried, returned, dst, md_files, file_i, total, preprocess_dir>>
    /\ UNCHANGED watchVars

\* A pass that counts every line the loop leaves alone as an error: what the
\* expander would come to if "errors += 1" also ran for an unregistered name.
Passed_counting_unregistered(p) ==
    /\ lineno' = lineno + 1
    /\ tried' = p.res
    /\ errors' = IF p.res.kind \in {"error", "unrecognized"} THEN errors + 1 ELSE errors
    /\ out' = out \o p.append
    /\ origin' = origin \o p.tags
    /\ pc' = IF p.raise THEN "raised" ELSE "expand"
    /\ raisedExc' = IF p.raise THEN p.res.exc ELSE raisedExc

\* The effect of one pass p of the expander's loop.
Passed(p) ==
    /\ lineno' = lineno + 1
    /\ tried' = p.res
    /\ errors' = IF p.res.kind = "error" THEN errors + 1 ELSE errors
    /\ out' = out \o p.append
    /\ origin' = origin \o p.tags
    /\ pc' = IF p.raise THEN "raised" ELSE "expand"
    /\ raisedExc' = IF p.raise THEN p.res.exc ELSE raisedExc

\* One pass of the expander's loop over the lines, the except handler included.
ExpandLine ==
    /\ pc = "expand"
    /\ lineno < Len(lines)
    /\ Passed(loop_pass(lines[lineno + 1], lineno + 1, directive_rules, options))
    /\ UNCHANGED <<configFile, includeFiles, srcFile, options, subst_rules, directive_rules,
                   lines, returned, dst, md_files, file_i, total, preprocess_dir>>
    /\ UNCHANGED watchVars

\* The expander returns (result, errors) after the last line.
ExpandReturn ==
    /\ pc = "expand"
    /\ lineno = Len(lines)
    /\ returned' = expand_result(out, srcFile)
    /\ pc' = "returned"
    /\ UNCHANGED <<configFile, includeFiles, srcFile, options, subst_rules, directive_rules,
                   lines, lineno, out, origin, errors, tried, raisedExc, dst,
                   md_files, file_i, total, preprocess_dir>>
    /\ UNCHANGED watchVars

\* The rest of preprocess_file: the global substitution, the page sections,
\* and the write of the destination file.
FinishFile ==
    /\ pc = "returned"
    /\ dst' = preprocess_text_add_pages(apply_sed_like_substitutions(returned, subst_rules))
    /\ preprocess_dir' = Put(preprocess_dir, SRC_NAME, dst')
    /\ pc' = "done"
    /\ UNCHANGED <<configFile, includeFiles, srcFile, options, subst_rules, directive_rules,
                   lines, lineno, out, origin, errors, tried, returned, raisedExc,
                   md_files, file_i, total>>
    /\ UNCHANGED watchVars

Next == ReadAndParseConfig \/ ExpandLine \/ ExpandReturn \/ FinishFile

\* The state a call of preprocess_file starts in: nothing parsed, expanded,
\* returned or written yet.
Fresh ==
    [subst_rules |-> <<>>, directive_rules |-> <<>>, lines |-> <<>>, lineno |-> 0,
     out |-> <<>>, origin |-> <<>>, errors |-> 0,
     tried |-> Outcome("none", NoExc, <<>>, <<>>), returned |-> None, dst |-> None]

\* A listing in descending order of the names: what list_md_files would come
\* to with the sort reversed.
list_md_files_reversed(dir) ==
    [i \in 1..Cardinality(DOMAIN dir) |->
        [name |-> Sorted(DOMAIN dir)[Cardinality(DOMAIN dir) + 1 - i],
         text |-> dir[Sorted(DOMAIN dir)[Cardinality(DOMAIN dir) + 1 - i]]]]

\* list_md_files(dir_path): the documents of a directory (name -> text),
\* sorted by name.
list_md_files(dir) ==
    [i \in 1..Cardinality(DOMAIN dir) |->
        [name |-> Sorted(DOMAIN dir)[i], text |-> dir[Sorted(DOMAIN dir)[i]]]]

\* preprocess_all calls preprocess_file on the document number i of md_files.
OpenFile(i) ==
    /\ pc' = "start"
    /\ file_i' = i
    /\ srcFile' = md_files[i].text
    /\ subst_rules' = Fresh.subst_rules
    /\ directive_rules' = Fresh.directive_rules
    /\ lines' = Fresh.lines
    /\ lineno' = Fresh.lineno
    /\ out' = Fresh.out
    /\ origin' = Fresh.origin
    /\ errors' = Fresh.errors
    /\ tried' = Fresh.tried
    /\ returned' = Fresh.returned
    /\ dst' = Fresh.dst

\* preprocess_all up to its first call of preprocess_file: it returns 0 for a
\* directory without documents, and else sets its sum to 0 and enters the
\* loop over md_files.
ListFiles ==
    /\ pc = "list"
    /\ total' = 0
    /\ IF md_files = <<>>
       THEN /\ pc' = "all_done"
            /\ UNCHANGED <<srcFile, subst_rules, directive_rules, lines, lineno, out,
                           origin, errors, tried, returned, dst, file_i>>
       ELSE OpenFile(1)
    /\ UNCHANGED <<configFile, includeFiles, options, raisedExc, md_files, preprocess_dir>>
    /\ UNCHANGED watchVars

\* "errors += preprocess_file(src, dst, options=options)" after the call
\* returned, and the step of the loop to the next document or to
\* "return errors".
AddErrors ==
    /\ pc = "done"
    /\ file_i >= 1
    /\ total' = total + errors
    /\ IF file_i < Len(md_files)
       THEN OpenFile(file_i + 1)
       ELSE /\ pc' = "all_done"
            /\ UNCHANGED <<srcFile, subst_rules, directive_rules, lines, lineno, out,
                           origin, errors, tried, returned, dst, file_i>>
    /\ UNCHANGED <<configFile, includeFiles, options, raisedExc, md_files, preprocess_dir>>
    /\ UNCHANGED watchVars

NextAll == ListFiles \/ ReadAndParseConfig \/ ExpandLine \/ ExpandReturn \/ FinishFile
              \/ AddErrors

\* The state preprocess_all is in after "md_files = list_md_files(src_dir)",
\* for a configuration, a source directory (name -> text) and options.
StartAll(config, fs, dir, opts) ==
    /\ pc = "list"
    /\ configFile = config
    /\ includeFiles = fs
    /\ srcFile = None
    /\ options = opts
    /\ subst_rules = Fresh.subst_rules
    /\ directive_rules = Fresh.directive_rules
    /\ lines = Fresh.lines
    /\ lineno = Fresh.lineno
    /\ out = Fresh.out
    /\ origin = Fresh.origin
    /\ errors = Fresh.errors
    /\ tried = Fresh.tried
    /\ returned = Fresh.returned
    /\ raisedExc = NoExc
    /\ dst = Fresh.dst
    /\ md_files = list_md_files(dir)
    /\ preprocess_dir = <<>>
    /\ file_i = 0
    /\ total = 0
    /\ NewWatch

\* The state preprocess_file starts in when it is called on its own, for a
\* configuration, a source and options.
Start(config, fs, src, opts) ==
    /\ md_files = <<>>
    /\ preprocess_dir = <<>>
    /\ file_i = 0
    /\ total = 0
    /\ pc = "start"
    /\ configFile = config
    /\ includeFiles = fs
    /\ srcFile = src
    /\ options = opts
    /\ subst_rules = <<>>
    /\ directive_rules = <<>>
    /\ lines = <<>>
    /\ lineno = 0
    /\ out = <<>>
    /\ origin = <<>>
    /\ errors = 0
    /\ tried = Outcome("none", NoExc, <<>>, <<>>)
    /\ returned = None
    /\ raisedExc = NoExc
    /\ dst = None
    /\ NewWatch

(***************************************************************************)
(* Inputs                                                                  *)
(***************************************************************************)

\* The sequences over S of length 0..n.
SeqsUpTo(S, n) == UNION {[1..k -> S] : k \in 0..n}

\* The texts made of up to n lines of pool, with and without a final newline.
Texts(pool, n) ==
    {Join(ls, Chars("\n")) \o nl : ls \in SeqsUpTo(pool, n), nl \in {<<>>, Chars("\n")}}

AllOptions == {PreprocessOptions(c, e) : c \in BOOLEAN, e \in BOOLEAN}

\* The file an @file: entry of the configurations below names.
IncludeFiles == Put(<<>>, Chars("part.html"), Chars("<hr>\n"))

\* A configuration with inline, fenced and included templates.
MainConfig ==
    Join(<< Chars("# directives"),
            Chars("[[greet, name, greeting=Hello]] = ${greeting}, ${name}!"),
            <<>>,
            Chars("[[tag, name]] = <${name}/>"),
            Chars("[[loop]] = [[loop]]"),
            Chars("[[bad]] = ${nope}"),
            Chars("[[two]] = ") \o FENCE,
            Chars("x"),
            <<>>,
            <<>>,
            FENCE,
            Chars("[[none]] = ") \o FENCE,
            FENCE,
            Chars("[[rule]] = @file:part.html"),
            Chars("[[wrap]] = <[[none]]>") >>, Chars("\n")) \o Chars("\n")

\* A configuration that declares a directive twice.
DuplicateConfig ==
    Join(<< Chars("[[tag, name]] = <${name}/>"),
            Chars("[[tag]] = x") >>, Chars("\n")) \o Chars("\n")

Configs == {MainConfig, DuplicateConfig, None}

\* The lines the documents are made of.
DocLines ==
    { Chars("A"),
      <<>>,
      Chars("[[greet, World]]"),
      Chars("  [[greet, name=World, greeting=Hi]] "),
      Chars("see [[tag, a]]"),
      Chars("see [[wrap]]"),
      Chars("[[tag]]"),
      Chars("[[foo, 1, 2]]"),
      Chars("[[foo,,1]]"),
      Chars("[[loop]]"),
      Chars("[[bad]]"),
      Chars("[[two]]"),
      Chars("[[none]]"),
      Chars("[[page]]") }

\* The longest document, in lines.
MaxLines == 2

\* preprocess_file on a document of up to MaxLines lines.
Init ==
    \E config \in Configs, src \in Texts(DocLines, MaxLines) \cup {None},
       opts \in AllOptions :
        Start(config, IncludeFiles, src, opts)

Spec == Init /\ [][Next]_vars

\* The parameters a generated signature declares, and the arguments a
\* generated invocation gives.
SigTokens == {Chars("a"), Chars("b"), Chars("a=d"), Chars("b=d"), Chars("c=e")}
ArgTokens == {Chars("x"), Chars("y"), Chars("a=v"), Chars("b=v"), Chars("q=w")}

\* The longest signature, in parameters, and the longest invocation, in arguments.
MaxParams == 3
MaxArgs == 2

\* "[[r, t1, t2, ...]]"
Bracketed(tokens) ==
    Chars("[[") \o Join(<<Chars("r")>> \o tokens, Chars(", ")) \o Chars("]]")

\* The configuration that declares the directive r with the parameters sig.
SigConfig(sig) == Bracketed(sig) \o Chars(" = T") \o Chars("\n")

\* preprocess_file on a one-line document that invokes r, under a
\* configuration that declares r.
InitArgs ==
    \E sig \in SeqsUpTo(SigTokens, MaxParams), args \in SeqsUpTo(ArgTokens, MaxArgs) :
        Start(SigConfig(sig), IncludeFiles, Bracketed(args), PreprocessOptions(TRUE, FALSE))

SpecArgs == InitArgs /\ [][Next]_vars

\* The lines of the documents handed to the page sectioning.
PageLines ==
    { Chars("A"),
      <<>>,
      Chars("[[page]]"),
      Chars("  [[page]] "),
      Chars("[[page]] x"),
      Chars("</section>") }

\* The longest document handed to the page sectioning, in lines.
MaxPageLines == 3

\* preprocess_file without a configuration file: the expander and the global
\* substitution leave the lines as they are, and the page sectioning gets them.
InitPages ==
    \E src \in Texts(PageLines, MaxPageLines) :
        Start(None, IncludeFiles, src, PreprocessOptions(FALSE, FALSE))

SpecPages == InitPages /\ [][Next]_vars

(***************************************************************************)
(* Inputs: directories of documents                                        *)
(***************************************************************************)

\* The documents the directories are made of: without lines, without
\* candidates, with lines that fail in parsing, in resolution and in
\* substitution, with expansions and with an unregistered directive.
Documents ==
    { <<>>,
      Chars("A\n"),
      Chars("[[tag]]\n"),
      Chars("  [[tag]] \n"),
      Chars("[[foo,,1]]\nA\n"),
      Chars("[[bad]]\n[[tag]]"),
      Chars("[[greet, World]]\n[[foo, 1, 2]]\n"),
      Chars("[[tag]]\n[[greet, World]]\n[[foo,,1]]\n") }

\* The largest directory, in documents.
MaxDocuments == 3

\* The names the documents of the directories have.
DocumentNames == {Chars("a.md"), Chars("b.md"), Chars("c.md")}

\* The directories of up to MaxDocuments documents: name -> text.
Directories ==
    UNION {[names -> Documents] :
              names \in {ns \in SUBSET DocumentNames : Cardinality(ns) <= MaxDocuments}}

\* preprocess_all on a directory of up to MaxDocuments documents.
InitAll ==
    \E dir \in Directories, opts \in AllOptions :
        StartAll(MainConfig, IncludeFiles, dir, opts)

SpecAll == InitAll /\ [][NextAll]_vars

(***************************************************************************)
(* Inputs: a configuration file rewritten during a run                     *)
(***************************************************************************)

\* What the configuration file can be rewritten to during a run: the
\* configuration the run starts with, and one that declares greet differently
\* and nothing else.
EditedConfigs ==
    { MainConfig, Chars("[[greet, name]] = Bye, ${name}.\n") }

\* The environment: the configuration file is rewritten while preprocess_all
\* is between two documents, after one call of preprocess_file returned and
\* before the next reads the file.
EditConfig ==
    /\ pc = "done"
    /\ file_i >= 1
    /\ file_i < Len(md_files)
    /\ configFile' \in EditedConfigs \ {configFile}
    /\ UNCHANGED <<pc, includeFiles, srcFile, options, subst_rules, directive_rules, lines,
                   lineno, out, origin, errors, tried, returned, raisedExc, dst,
                   md_files, file_i, total, preprocess_dir>>
    /\ UNCHANGED watchVars

NextEdit == ListFiles \/ ReadAndParseConfig \/ ExpandLine \/ ExpandReturn \/ FinishFile
               \/ AddErrors \/ EditConfig

\* preprocess_all on a directory of up to MaxDocuments documents, started
\* with MainConfig, beside an editor of the configuration file.
SpecEdit == InitAll /\ [][NextEdit]_vars

(***************************************************************************)
(* Inputs: templates that hold the tokens of other directives              *)
(***************************************************************************)

\* A configuration whose templates hold the token of the zero-parameter
\* directive hr: in a zero-parameter rule before and after it, and in a rule
\* with a parameter.
TokenConfig ==
    Join(<< Chars("[[early]] = ([[hr]])"),
            Chars("[[hr]] = <hr>"),
            Chars("[[wrap]] = <[[hr]]>"),
            Chars("[[box, x]] = [[hr]]${x}") >>, Chars("\n")) \o Chars("\n")

\* The lines the documents are made of.
TokenLines ==
    { Chars("A"),
      Chars("[[hr]]"),
      Chars("[[wrap]]"),
      Chars("[[early]]"),
      Chars("[[box, a]]"),
      Chars("see [[wrap]]") }

\* The longest document, in lines.
MaxTokenLines == 2

\* preprocess_file under TokenConfig.
InitLegacy ==
    \E src \in Texts(TokenLines, MaxTokenLines) :
        Start(TokenConfig, IncludeFiles, src, PreprocessOptions(FALSE, FALSE))

SpecLegacy == InitLegacy /\ [][Next]_vars

(***************************************************************************)
(* Inputs: file system events                                              *)
(***************************************************************************)

\* The events the observer delivers: on two Markdown files, one of them with
\* its suffix in capitals, on another file, and on a directory.
WatchEvents ==
    { [is_directory |-> FALSE, src_path |-> Chars("src/a.md")],
      [is_directory |-> FALSE, src_path |-> Chars("src/B.MD")],
      [is_directory |-> FALSE, src_path |-> Chars("src/a.txt")],
      [is_directory |-> TRUE,  src_path |-> Chars("src/d.md")] }

\* The last time of the clock, in twentieths of a second.
MaxClock == 12

\* The observer delivers a "modified" event.
OnModified == \E ev \in WatchEvents : on_modified("on_modified", ev)

\* The observer delivers a "created" event.
OnCreated == \E ev \in WatchEvents : on_created(ev)

\* Time passes.
Tick ==
    /\ clock < MaxClock
    /\ clock' = clock + 1
    /\ UNCHANGED <<_last_run, event, on_change_calls, last_md_event>>
    /\ UNCHANGED preprocessVars

NextWatch == OnModified \/ OnCreated \/ Tick

\* watch_md_dir: a fresh runner and handler, and no build under way.
InitWatch == Start(MainConfig, IncludeFiles, None, PreprocessOptions(FALSE, FALSE))

SpecWatch == InitWatch /\ [][NextWatch]_vars

(***************************************************************************)
(* Inputs: configurations with and without errors                          *)
(***************************************************************************)

\* The lines the generated configurations are made of.
ConfigLines ==
    { Chars("# comment"),
      Chars("[[tag, name]] = <${name}/>"),
      Chars("[[tag]] = x"),
      Chars("[[two]] = ") \o FENCE,
      FENCE,
      Chars("[[rule]] = @file:part.html"),
      Chars("[[inc]] = @file:missing.html"),
      Chars("[[a, b=c, d]] = x"),
      Chars("[[x]] y"),
      Chars("oops") }

\* The longest generated configuration, in lines.
MaxConfigLines == 2

\* The documents run under the generated configurations.
ConfigDocs == Texts({Chars("[[tag]]"), Chars("[[tag, a]]")}, 1)

\* preprocess_file under a configuration of up to MaxConfigLines lines.
InitConfig ==
    \E cl \in SeqsUpTo(ConfigLines, MaxConfigLines), src \in ConfigDocs,
       opts \in AllOptions :
        Start(Join(cl, Chars("\n")) \o Chars("\n"), IncludeFiles, src, opts)

SpecConfig == InitConfig /\ [][Next]_vars

(***************************************************************************)
(* Properties of the configuration errors                                  *)
(***************************************************************************)

\* The error a configuration of one line must raise, for the lines of
\* ConfigLines that are wrong on their own.
ExpectedKind ==
    Put(Put(Put(Put(Put(<<>>,
        Chars("[[two]] = ") \o FENCE, "unterminated_fence"),
        Chars("[[inc]] = @file:missing.html"), "include_not_found"),
        Chars("[[a, b=c, d]] = x"), "required_after_optional"),
        Chars("[[x]] y"), "no_equals"),
        Chars("oops"), "no_lhs")

\* C12: a configuration error leaves preprocess_file as the exception
\* _parse_subst_config raised, whatever continue_on_error and embed_errors
\* are: no line of the document is tried, no error is counted, nothing is
\* returned by the expander and no destination is written.
C12_ConfigErrorsFatal ==
    LET cfg == _parse_subst_config(configFile, includeFiles)
    IN  /\ (pc # "start" /\ ~cfg.ok) =>
               /\ pc = "raised"
               /\ raisedExc = cfg
               /\ lineno = 0 /\ errors = 0 /\ out = <<>>
               /\ returned = None
               /\ dst = None
        /\ \A line \in DOMAIN ExpectedKind :
               (pc # "start" /\ configFile = line \o Chars("\n")) =>
                   (pc = "raised" /\ raisedExc.kind = ExpectedKind[line])
        /\ (pc # "start"
            /\ configFile = Chars("[[tag, name]] = <${name}/>\n[[tag]] = x\n")) =>
               (pc = "raised" /\ raisedExc.kind = "duplicate_directive")

\* C12 happens: the second entry declares tag again, continue_on_error and
\* embed_errors are set, and preprocess_file is left with the error before a
\* line of the document is tried.
C12_Witness ==
    /\ pc = "raised"
    /\ configFile = Chars("[[tag, name]] = <${name}/>\n[[tag]] = x\n")
    /\ options.continue_on_error /\ options.embed_errors
    /\ raisedExc.kind = "duplicate_directive"
    /\ srcFile = Chars("[[tag]]\n")
    /\ lineno = 0 /\ errors = 0 /\ dst = None

(***************************************************************************)
(* Properties of the two registries                                        *)
(***************************************************************************)

\* The configuration was parsed without an error.
ConfigParsed == pc \in {"expand", "returned", "done"}

\* The names of the registered directives without parameters.
ZeroParameterNames ==
    {name \in DOMAIN directive_rules : directive_rules[name].params = <<>>}

\* C25: after _parse_subst_config succeeded every directive is registered
\* under its own name, once, and the substitution rules are exactly one per
\* directive without parameters, with the token [[name]] and the template of
\* the directive as the replacement; a directive with parameters has none.
C25_TwoRegistries ==
    ConfigParsed =>
        /\ \A name \in DOMAIN directive_rules : directive_rules[name].name = name
        /\ Len(subst_rules) = Cardinality(ZeroParameterNames)
        /\ {subst_rules[k].token : k \in DOMAIN subst_rules}
               = {Chars("[[") \o name \o Chars("]]") : name \in ZeroParameterNames}
        /\ \A k \in DOMAIN subst_rules :
               \A name \in ZeroParameterNames :
                   subst_rules[k].token = Chars("[[") \o name \o Chars("]]")
                       => subst_rules[k].replacement = directive_rules[name].template

\* C25 happens: of the directives tag, with a parameter, and rule, without,
\* only rule has a substitution rule, with the included file as replacement.
C25_Witness ==
    /\ ConfigParsed
    /\ DOMAIN directive_rules = {Chars("tag"), Chars("rule")}
    /\ directive_rules[Chars("tag")].params # <<>>
    /\ Len(subst_rules) = 1
    /\ subst_rules[1].token = Chars("[[rule]]")
    /\ subst_rules[1].replacement = Chars("<hr>\n")

(***************************************************************************)
(* Inputs: configurations with fenced blocks                               *)
(***************************************************************************)

\* The line that opens the fenced block of the directive two.
FenceOpening == Chars("[[two]] = ") \o FENCE

\* The directive a line of a block looks like the entry of.
FenceEntry == Chars("[[x]] = y")

\* The marker with a space on either side: not a closing line.
FencePadded == Chars(" ") \o FENCE \o Chars(" ")

\* The lines the configurations with blocks are made of.
FenceLines ==
    {FenceOpening, FENCE, FencePadded, FenceEntry, Chars("# c"), <<>>}

\* The longest configuration with blocks, in lines.
MaxFenceLines == 4

InitFence ==
    \E cl \in SeqsUpTo(FenceLines, MaxFenceLines) :
        Start(Join(cl, Chars("\n")) \o Chars("\n"), IncludeFiles,
              Chars("[[two]]\n"), PreprocessOptions(FALSE, TRUE))

SpecFence == InitFence /\ [][Next]_vars

(***************************************************************************)
(* Properties of the fenced blocks                                         *)
(***************************************************************************)

\* The first line after line i that is exactly the marker, or 0.
ClosingOf(ls, i) ==
    LET closing == {j \in (i + 1)..Len(ls) : ls[j] = FENCE}
    IN  IF closing = {} THEN 0 ELSE MinOf(closing)

\* The line the reading goes on with after the entry at line i: past the
\* closing line of a block, past the end for a block left open.
AfterEntry(ls, i) ==
    IF ls[i] # FenceOpening THEN i + 1
    ELSE IF ClosingOf(ls, i) = 0 THEN Len(ls) + 1
    ELSE ClosingOf(ls, i) + 1

\* The lines from line i on that are read as configuration: those outside
\* every block.
RECURSIVE Outside(_, _)
Outside(ls, i) ==
    IF i > Len(ls) THEN {} ELSE {i} \cup Outside(ls, AfterEntry(ls, i))

\* Line i, read as configuration, is in error on its own or repeats a name.
FenceBad(ls, i) ==
    \/ ls[i] \in {FENCE, FencePadded}
    \/ /\ ls[i] \in {FenceOpening, FenceEntry}
       /\ \E k \in Outside(ls, 1) : k < i /\ ls[k] = ls[i]

\* C26: the template of a fenced entry is the lines between the opening line
\* and the first later line that is exactly the marker, joined by newlines,
\* whatever they look like; the lines of the block register nothing and the
\* reading goes on after the closing line; a block without a closing line is
\* an error reported at the opening line.
C26_FencedBlock ==
    LET ls == splitlines(configFile)
        top == Outside(ls, 1)
    IN  /\ ConfigParsed =>
              /\ DOMAIN directive_rules
                     = {Chars("two") : o \in {o \in top : ls[o] = FenceOpening}}
                       \cup {Chars("x") : e \in {e \in top : ls[e] = FenceEntry}}
              /\ \A o \in top :
                     ls[o] = FenceOpening =>
                         /\ ClosingOf(ls, o) # 0
                         /\ directive_rules[Chars("two")].template
                                = Join(SubSeq(ls, o + 1, ClosingOf(ls, o) - 1),
                                       Chars("\n"))
        /\ \A o \in top :
               /\ pc # "start"
               /\ ls[o] = FenceOpening
               /\ ClosingOf(ls, o) = 0
               /\ \A k \in top : k < o => ~FenceBad(ls, k)
               => /\ pc = "raised"
                  /\ raisedExc.kind = "unterminated_fence"
                  /\ raisedExc.msg
                         = ConfigWhere(o) \o Chars(": unterminated fenced block for ")
                           \o Repr(Chars("[[two]]"))
                           \o Chars(" (expected closing line ") \o FENCE \o Chars(")")

\* C26 happens: a block holding a line that looks like an entry, a comment
\* and the padded marker is kept whole and registers nothing, and the entry
\* after its closing line is registered.
C26_Witness ==
    /\ ConfigParsed
    /\ splitlines(configFile) = <<FenceOpening, FenceEntry, FENCE, FenceEntry>>
    /\ directive_rules[Chars("two")].template = FenceEntry
    /\ Chars("x") \in DOMAIN directive_rules

\* C26 happens: a block followed only by the padded marker is left open, and
\* the error names the opening line, the second of the file.
C26_WitnessOpen ==
    /\ pc = "raised"
    /\ splitlines(configFile) = <<Chars("# c"), FenceOpening, FencePadded>>
    /\ raisedExc.kind = "unterminated_fence"
    /\ StartsWith(raisedExc.msg, ConfigWhere(2))

(***************************************************************************)
(* Inputs: argument lists with quoted spans                                *)
(***************************************************************************)

\* The pieces the generated argument lists are made of.
ListPieces ==
    { Chars("a"), Chars("d"), Chars(","), Chars(", "), Chars("\""),
      Chars("\"b,c\"") }

\* The longest generated argument list, in pieces.
MaxPieces == 5

\* A rule that shows the tokens of its invocation: up to four positional
\* arguments, the last three with the default "-".
TokensConfig == Chars("[[r, p, q=-, s=-, u=-]] = ${p}|${q}|${s}|${u}\n")

\* preprocess_file on the one-line document "[[r, <list>]]".
InitTokens ==
    \E ps \in SeqsUpTo(ListPieces, MaxPieces) :
        Start(TokensConfig, IncludeFiles,
              Chars("[[r, ") \o Concat(ps) \o Chars("]]"),
              PreprocessOptions(TRUE, FALSE))

SpecTokens == InitTokens /\ [][Next]_vars

(***************************************************************************)
(* Inputs: argument lists with backslashes                                 *)
(***************************************************************************)

\* The characters the generated argument lists are made of.
EscapeChars == {"a", "\"", "\\", ","}

\* The longest generated argument list, in characters.
MaxEscapeChars == 6

\* preprocess_file on the one-line document "[[r, <list>]]", for a list with
\* backslashes inside and outside quoted spans.
InitEscapes ==
    \E cs \in SeqsUpTo(EscapeChars, MaxEscapeChars) :
        Start(TokensConfig, IncludeFiles, Chars("[[r, ") \o cs \o Chars("]]"),
              PreprocessOptions(TRUE, FALSE))

SpecEscapes == InitEscapes /\ [][Next]_vars

(***************************************************************************)
(* Properties of the tokenizer                                             *)
(***************************************************************************)

\* The commas of a text that stand outside every double-quoted span: those
\* with an even number of quote characters before them (for a text without
\* backslashes).
OutsideCommas(text) ==
    {i \in 1..Len(text) :
        /\ text[i] = ","
        /\ Cardinality({j \in 1..(i - 1) : text[j] = "\""}) % 2 = 0}

\* The text cut at its outside commas, each piece without its quote
\* characters and stripped.
QuotedPieces(text) ==
    LET commas == OutsideCommas(text)
        n      == Cardinality(commas)
        cut(k) == IF k = 0 THEN 0
                  ELSE IF k = n + 1 THEN Len(text) + 1
                  ELSE Kth(commas, k)
    IN  [k \in 1..(n + 1) |->
            Strip(SelectSeq(SubSeq(text, cut(k - 1) + 1, cut(k) - 1),
                            LAMBDA c : c # "\""))]

\* The parameters of TokensConfig, in declared order.
TokenParams == <<Chars("p"), Chars("q"), Chars("s"), Chars("u")>>

\* C13: the tokens of a list are its pieces between the commas outside the
\* double-quoted spans, without the quote characters, in their order; an empty
\* piece or an open quote is an error. Read off the invocation [[r, <list>]]:
\* the tokens after the name are the values of the parameters of r.
C13_SplitOutsideQuotes ==
    (pc # "start" /\ lineno = 1) =>
        LET text   == SubSeq(lines[1], 3, Len(lines[1]) - 2)
            pieces == QuotedPieces(text)
            n      == Len(pieces)
            quotes == Cardinality({j \in 1..Len(text) : text[j] = "\""})
        IN  IF \E k \in 1..(n - 1) : pieces[k] = <<>>
            THEN tried.kind = "error" /\ tried.exc.kind = "empty_token"
            ELSE IF quotes % 2 = 1
            THEN tried.kind = "error" /\ tried.exc.kind = "unterminated_quote"
            ELSE IF pieces[n] = <<>>
            THEN tried.kind = "error" /\ tried.exc.kind = "empty_token"
            ELSE IF n - 1 > Len(TokenParams)
            THEN tried.kind = "error" /\ tried.exc.kind = "too_many_positional"
            ELSE /\ tried.kind = "expanded"
                 /\ \A k \in 1..Len(TokenParams) :
                        tried.values[TokenParams[k]] =
                            IF k <= n - 1 THEN pieces[k + 1] ELSE Chars("-")

\* C13 happens: a, "b,c", d gives the three tokens a / b,c / d.
C13_Witness ==
    /\ pc = "done"
    /\ lines = <<Chars("[[r, a, \"b,c\", d]]")>>
    /\ tried.kind = "expanded"
    /\ tried.values[Chars("p")] = Chars("a")
    /\ tried.values[Chars("q")] = Chars("b,c")
    /\ tried.values[Chars("s")] = Chars("d")
    /\ tried.values[Chars("u")] = Chars("-")
    /\ tried.expanded = Chars("a|b,c|d|-")

(***************************************************************************)
(* Properties of the escapes in quoted spans                               *)
(***************************************************************************)

\* What reading a list comes to: the tokens, or the kind of the error.
Read(tokens) == [ok |-> TRUE, tokens |-> tokens]
Misread(kind) == [ok |-> FALSE, kind |-> kind]

\* The list read from index i on, with the tokens toks and the text buf of
\* the current token read so far, inside (quoted) or outside a quoted span.
\* Outside a span a quote opens one, a comma ends the token, and every other
\* character, the backslash too, is text. Inside a span a quote closes it, a
\* backslash before a quote or a backslash gives that character, a backslash
\* before another character gives the two characters, and every other
\* character is text. The end of the list inside a span, also after a
\* backslash, is an error; so is a token without text.
RECURSIVE ReadList(_, _, _, _, _)
ReadList(text, i, quoted, buf, toks) ==
    IF i > Len(text)
    THEN IF quoted THEN Misread("unterminated_quote")
         ELSE IF Strip(buf) = <<>> THEN Misread("empty_token")
         ELSE Read(Append(toks, Strip(buf)))
    ELSE IF ~quoted
    THEN IF text[i] = "\"" THEN ReadList(text, i + 1, TRUE, buf, toks)
         ELSE IF text[i] = ","
         THEN IF Strip(buf) = <<>> THEN Misread("empty_token")
              ELSE ReadList(text, i + 1, FALSE, <<>>, Append(toks, Strip(buf)))
         ELSE ReadList(text, i + 1, FALSE, Append(buf, text[i]), toks)
    ELSE IF text[i] = "\"" THEN ReadList(text, i + 1, FALSE, buf, toks)
    ELSE IF text[i] # "\\" THEN ReadList(text, i + 1, TRUE, Append(buf, text[i]), toks)
    ELSE IF i = Len(text) THEN Misread("unterminated_quote")
    ELSE IF text[i + 1] \in {"\"", "\\"}
    THEN ReadList(text, i + 2, TRUE, Append(buf, text[i + 1]), toks)
    ELSE ReadList(text, i + 2, TRUE, buf \o <<"\\", text[i + 1]>>, toks)

\* C24: the tokens of the invocation [[r, <list>]] are those of the list read
\* with the escapes of a quoted span: backslash-quote is a quote that does
\* not close the span, backslash-backslash is one backslash, a backslash
\* before another character stays with it, a list that ends inside a span is
\* an error, and outside a span a backslash is text.
C24_Escapes ==
    (pc # "start" /\ lineno = 1) =>
        LET read == ReadList(SubSeq(lines[1], 3, Len(lines[1]) - 2), 1, FALSE,
                             <<>>, <<>>)
        IN  IF ~read.ok
            THEN tried.kind = "error" /\ tried.exc.kind = read.kind
            ELSE IF Len(read.tokens) - 1 > Len(TokenParams)
            THEN tried.kind = "error" /\ tried.exc.kind = "too_many_positional"
            ELSE /\ tried.kind = "expanded"
                 /\ \A k \in 1..Len(TokenParams) :
                        tried.values[TokenParams[k]] =
                            IF k <= Len(read.tokens) - 1 THEN read.tokens[k + 1]
                            ELSE Chars("-")

\* C24 happens: in the span "\"\a" the backslash-quote is a quote, the span
\* goes on, and the backslash before a stays.
C24_Witness ==
    /\ pc = "done"
    /\ lines = <<Chars("[[r, \"\\\"\\a\"]]")>>
    /\ tried.kind = "expanded"
    /\ tried.values[Chars("p")] = <<"\"", "\\", "a">>

\* C24 happens: backslash-backslash in a span is one backslash, and a
\* backslash outside a span is text.
C24_WitnessBackslash ==
    /\ pc = "done"
    /\ lines = <<Chars("[[r, \\,\"\\\\\"]]")>>
    /\ tried.kind = "expanded"
    /\ tried.values[Chars("p")] = <<"\\">>
    /\ tried.values[Chars("q")] = <<"\\">>

\* C24 happens: a list that ends after a backslash in a span is an error.
C24_WitnessOpen ==
    /\ pc = "done"
    /\ lines = <<Chars("[[r, \"a\\]]")>>
    /\ tried.kind = "error"
    /\ tried.exc.kind = "unterminated_quote"

(***************************************************************************)
(* Inputs: templates with known, unknown and malformed placeholders        *)
(***************************************************************************)

\* The pieces the generated templates are made of.
TemplatePieces ==
    { Chars("${a}"), Chars("${b}"), Chars("${x}"), Chars("${y}"),
      Chars("$"), Chars("{a}"), Chars("${"), Chars("}"), Chars("${1}"),
      Chars("-") }

\* The longest generated template, in pieces.
MaxTemplatePieces == 3

\* The documents that invoke the rule t: a plain value, and a value that is
\* itself the text of a placeholder.
TemplateDocs == { Chars("[[t, v]]\n"), Chars("[[t, ${b}]]\n") }

\* preprocess_file with the rule [[t, a, b=B]] whose inline template is
\* generated.
InitTemplates ==
    \E ps \in SeqsUpTo(TemplatePieces, MaxTemplatePieces), doc \in TemplateDocs :
        Start(Chars("[[t, a, b=B]] = ") \o Concat(ps) \o Chars("\n"),
              IncludeFiles, doc, PreprocessOptions(TRUE, TRUE))

SpecTemplates == InitTemplates /\ [][Next]_vars

(***************************************************************************)
(* Properties of the placeholder substitution                              *)
(***************************************************************************)

\* The end of the text "${identifier}" that begins at index i of the text,
\* or 0 when none begins there.
PlaceholderAt(text, i) ==
    LET ends == {j \in (i + 3)..Len(text) :
                    /\ text[i] = "$" /\ text[i + 1] = "{" /\ text[j] = "}"
                    /\ text[i + 2] \in IdentStart
                    /\ \A k \in (i + 2)..(j - 1) : text[k] \in IdentChar}
    IN  IF ends = {} THEN 0 ELSE CHOOSE j \in ends : TRUE

\* The identifiers of the placeholders of a text.
PlaceholderNames(text) ==
    {SubSeq(text, i + 2, PlaceholderAt(text, i) - 1) :
        i \in {i \in 1..Len(text) : PlaceholderAt(text, i) # 0}}

\* The text from index i on with the value of each of its placeholders in
\* the placeholder's place, everything else as it is.
RECURSIVE Filled(_, _, _)
Filled(text, i, vals) ==
    IF i > Len(text) THEN <<>>
    ELSE IF PlaceholderAt(text, i) # 0
    THEN vals[SubSeq(text, i + 2, PlaceholderAt(text, i) - 1)]
            \o Filled(text, PlaceholderAt(text, i) + 1, vals)
    ELSE <<text[i]>> \o Filled(text, i + 1, vals)

\* The rule t was parsed and the one line of the document tried.
TemplateTried ==
    /\ pc # "start"
    /\ lineno = 1
    /\ Chars("t") \in DOMAIN directive_rules

\* The identifiers the template of t names that have no value.
AbsentNames ==
    PlaceholderNames(directive_rules[Chars("t")].template)
        \ {Chars("a"), Chars("b")}

\* C14: every placeholder whose identifier has a value is replaced by it;
\* when identifiers are absent, one error lists all of them and no text is
\* returned; a template without placeholders is returned as it is.
C14_AllAbsentReported ==
    TemplateTried =>
        LET template == directive_rules[Chars("t")].template
            vals     == Put(Put(<<>>, Chars("a"),
                                SubSeq(lines[1], 6, Len(lines[1]) - 2)),
                            Chars("b"), Chars("B"))
        IN  IF AbsentNames # {}
            THEN /\ tried.kind = "error"
                 /\ tried.exc.kind = "unknown_placeholder"
                 /\ tried.exc.msg =
                        Where(1)
                          \o Chars(": template references unknown placeholder(s): ")
                          \o Join(Sorted(AbsentNames), Chars(", "))
                 /\ tried.expanded = <<>>
                 /\ errors = 1
            ELSE /\ tried.kind = "expanded"
                 /\ tried.expanded = Filled(template, 1, vals)
                 /\ (PlaceholderNames(template) = {} => tried.expanded = template)
                 /\ errors = 0

\* C14 happens: two absent identifiers after a replaced one are reported
\* together.
C14_Witness ==
    /\ TemplateTried
    /\ pc = "done"
    /\ directive_rules[Chars("t")].template = Chars("${a}${y}${x}")
    /\ tried.kind = "error"
    /\ tried.exc.msg =
           Chars("src/book.md:1: template references unknown placeholder(s): x, y")

\* C14 happens: malformed placeholders are left as they are beside a
\* replaced one.
C14_WitnessMalformed ==
    /\ TemplateTried
    /\ pc = "done"
    /\ directive_rules[Chars("t")].template = Chars("${${a}}")
    /\ lines[1] = Chars("[[t, ${b}]]")
    /\ tried.expanded = Chars("${${b}}")

(***************************************************************************)
(* Properties of the argument resolution and of the signatures             *)
(***************************************************************************)

\* The invocation a candidate line holds, as _parse_invocation reads it.
Invocation(line) ==
    _parse_invocation(
        _strip_outer_brackets(WHOLE_LINE_DIRECTIVE_RE(line), <<>>).inner, <<>>)

\* The parameters, in declared order, that an invocation does not give by name.
Unnamed(params, named) == SelectSeq(params, LAMBDA p : p.name \notin DOMAIN named)

\* The values vals keep every named value, and the positional arguments went,
\* in declared order, to the parameters not given by name.
NamedFirst(rule, inv, vals) ==
    /\ \A k \in DOMAIN inv.named : k \in DOMAIN vals /\ vals[k] = inv.named[k]
    /\ Len(inv.positional) <= Len(Unnamed(rule.params, inv.named))
    /\ \A i \in 1..Len(inv.positional) :
           /\ Unnamed(rule.params, inv.named)[i].name \in DOMAIN vals
           /\ vals[Unnamed(rule.params, inv.named)[i].name] = inv.positional[i]

\* C1: whenever _resolve_args resolves an invocation, every parameter given by
\* name has its named value, and the positional arguments are assigned, in
\* declared parameter order, only to the parameters not given by name.
C1_NamedValuesKept ==
    (lineno >= 1 /\ tried.kind = "expanded") =>
        NamedFirst(directive_rules[Invocation(lines[lineno]).name],
                   Invocation(lines[lineno]), tried.values)

\* C1 happens: [[r, a=v, x]] resolves under [[r, a, b]]; the positional x goes
\* past a, which has its value by name, to b.
C1_Witness ==
    /\ pc = "done"
    /\ configFile = SigConfig(<<Chars("a"), Chars("b")>>)
    /\ lines = <<Bracketed(<<Chars("a=v"), Chars("x")>>)>>
    /\ tried.kind = "expanded"
    /\ tried.values[Chars("a")] = Chars("v")
    /\ tried.values[Chars("b")] = Chars("x")

\* The signature "a, b=<default>": a required, b optional.
RequiredThenOptional(params) ==
    /\ Len(params) = 2
    /\ params[1].name = Chars("a") /\ params[1].required
    /\ params[2].name = Chars("b") /\ ~params[2].required

\* C2: under a rule with a required parameter a and an optional parameter b
\* with default d, one positional argument alone resolves b to d, and b=v by
\* name resolves b to v, before or after the positional argument.
C2_DefaultAndOverride ==
    (/\ lineno = 1
     /\ Chars("r") \in DOMAIN directive_rules
     /\ RequiredThenOptional(directive_rules[Chars("r")].params)
     /\ Invocation(lines[1]).ok
     /\ Len(Invocation(lines[1]).positional) = 1)
    => LET inv == Invocation(lines[1])
           d   == directive_rules[Chars("r")].params[2].default
       IN  /\ DOMAIN inv.named = {} =>
                 /\ tried.kind = "expanded"
                 /\ tried.values[Chars("a")] = inv.positional[1]
                 /\ tried.values[Chars("b")] = d
           /\ DOMAIN inv.named = {Chars("b")} =>
                 /\ tried.kind = "expanded"
                 /\ tried.values[Chars("a")] = inv.positional[1]
                 /\ tried.values[Chars("b")] = inv.named[Chars("b")]

\* C2 happens: [[r, b=v, x]] resolves under [[r, a, b=d]] with b = v, the
\* named token standing before the positional one.
C2_Witness ==
    /\ pc = "done"
    /\ configFile = SigConfig(<<Chars("a"), Chars("b=d")>>)
    /\ lines = <<Bracketed(<<Chars("b=v"), Chars("x")>>)>>
    /\ tried.kind = "expanded"
    /\ tried.values[Chars("a")] = Chars("x")
    /\ tried.values[Chars("b")] = Chars("v")

\* The names a rule declares.
DeclaredNames(rule) == {rule.params[i].name : i \in 1..Len(rule.params)}

\* The parameters are as _parse_signature_lhs builds them: a required one has
\* no default, an optional one has one.
ParamSpecInvariant(rule) ==
    \A i \in 1..Len(rule.params) :
        rule.params[i].required <=> rule.params[i].default = None

\* C27: whenever _resolve_args returns, the keys of the mapping are exactly
\* the names the rule declares: every required and every optional parameter
\* has a value, and nothing else has.
C27_MappingComplete ==
    (/\ lineno >= 1
     /\ tried.kind = "expanded"
     /\ ParamSpecInvariant(directive_rules[Invocation(lines[lineno]).name]))
    => DOMAIN tried.values
           = DeclaredNames(directive_rules[Invocation(lines[lineno]).name])

\* C27 happens: [[r, x]] resolves under [[r, a, b=d, c=e]]; a has the
\* positional value and b and c their defaults.
C27_Witness ==
    /\ pc = "done"
    /\ configFile = SigConfig(<<Chars("a"), Chars("b=d"), Chars("c=e")>>)
    /\ lines = <<Bracketed(<<Chars("x")>>)>>
    /\ tried.kind = "expanded"
    /\ ParamSpecInvariant(directive_rules[Chars("r")])
    /\ DOMAIN tried.values = {Chars("a"), Chars("b"), Chars("c")}
    /\ tried.values[Chars("c")] = Chars("e")

\* The one line of the document invokes the registered rule r, and its
\* invocation parses.
ResolveTried ==
    /\ pc # "start"
    /\ lineno = 1
    /\ Chars("r") \in DOMAIN directive_rules
    /\ Invocation(lines[1]).ok

\* The named keys of an invocation that the parameters do not declare.
UndeclaredKeys(params, inv) ==
    (DOMAIN inv.named) \ {params[i].name : i \in 1..Len(params)}

\* The names, in declared order, of the required parameters that an
\* invocation gives no value: not given by name, and standing among the
\* parameters not given by name behind the last positional argument.
Lacking(params, inv) ==
    LET rank(i) == Cardinality({j \in 1..i : params[j].name \notin DOMAIN inv.named})
        idx     == {i \in 1..Len(params) :
                       /\ params[i].required
                       /\ params[i].name \notin DOMAIN inv.named
                       /\ rank(i) > Len(inv.positional)}
    IN  [k \in 1..Cardinality(idx) |-> params[Kth(idx, k)].name]

\* C15: an invocation without undeclared named keys fails with the
\* missing-required error exactly when a required parameter has no value after
\* the named and the positional binding, and the error names all such
\* parameters in declared order.
C15_MissingRequiredAll ==
    (ResolveTried
     /\ UndeclaredKeys(directive_rules[Chars("r")].params, Invocation(lines[1])) = {})
    => LET lacking == Lacking(directive_rules[Chars("r")].params, Invocation(lines[1]))
       IN  /\ (tried.kind = "error" /\ tried.exc.kind = "missing_required")
                 <=> lacking # <<>>
           /\ lacking # <<>> =>
                 tried.exc.msg =
                     Where(1) \o Chars(": missing required arg(s) for r: ")
                              \o Join(lacking, Chars(", "))

\* C15 happens: [[r]] under [[r, b, a, c=e]] lacks b and a, and the error
\* names both, b first as declared.
C15_Witness ==
    /\ pc = "done"
    /\ configFile = SigConfig(<<Chars("b"), Chars("a"), Chars("c=e")>>)
    /\ lines = <<Bracketed(<<>>)>>
    /\ tried.kind = "error"
    /\ tried.exc.msg = Chars("src/book.md:1: missing required arg(s) for r: b, a")

\* C18: an invocation with an undeclared named key fails with the
\* unknown-named error whatever else is wrong with it; otherwise positional
\* arguments left over fail with the too-many-positional error; otherwise a
\* required parameter without a value fails with the missing-required error;
\* otherwise the invocation resolves.
C18_CheckOrder ==
    ResolveTried =>
        LET params == directive_rules[Chars("r")].params
            inv    == Invocation(lines[1])
        IN  IF UndeclaredKeys(params, inv) # {}
            THEN tried.kind = "error" /\ tried.exc.kind = "unknown_named"
            ELSE IF Len(inv.positional) > Len(Unnamed(params, inv.named))
            THEN tried.kind = "error" /\ tried.exc.kind = "too_many_positional"
            ELSE IF Lacking(params, inv) # <<>>
            THEN tried.kind = "error" /\ tried.exc.kind = "missing_required"
            ELSE tried.kind = "expanded"

\* C18 happens: [[r, q=w]] under [[r, a]] has an undeclared key and lacks the
\* required a, and fails for the key.
C18_Witness ==
    /\ pc = "done"
    /\ configFile = SigConfig(<<Chars("a")>>)
    /\ lines = <<Bracketed(<<Chars("q=w")>>)>>
    /\ tried.kind = "error"
    /\ tried.exc.kind = "unknown_named"

\* C18 happens: [[r, q=w, x]] under [[r]] has an undeclared key and a
\* positional argument too many, and fails for the key.
C18_WitnessTooMany ==
    /\ pc = "done"
    /\ configFile = SigConfig(<<>>)
    /\ lines = <<Bracketed(<<Chars("q=w"), Chars("x")>>)>>
    /\ tried.kind = "error"
    /\ tried.exc.kind = "unknown_named"

\* The pieces of a text between its commas, each stripped.
Pieces(text) ==
    LET commas == {i \in 1..Len(text) : text[i] = ","}
        n      == Cardinality(commas)
        cut(k) == IF k = 0 THEN 0
                  ELSE IF k = n + 1 THEN Len(text) + 1
                  ELSE Kth(commas, k)
    IN  [k \in 1..(n + 1) |-> Strip(SubSeq(text, cut(k - 1) + 1, cut(k) - 1))]

\* The parameters the first line of a configuration declares, as written:
\* the pieces after the name between "[[" and the first "]]".
DeclaredParams(config) ==
    Tail(Pieces(SubSeq(config, 3, Find(config, Chars("]]")) - 1)))

\* A bare parameter stands after a parameter with a default.
RequiredAfterOptional(sig) ==
    \E i, j \in 1..Len(sig) : i < j /\ HasEq(sig[i]) /\ ~HasEq(sig[j])

\* All required parameters stand before all optional ones, and no two
\* parameters have the same name.
WellFormedParams(params) ==
    /\ \A i, j \in 1..Len(params) :
           i < j => (params[i].required \/ ~params[j].required)
    /\ \A i, j \in 1..Len(params) : i # j => params[i].name # params[j].name

\* C3: a signature with a bare parameter after a defaulted one is rejected,
\* wherever the two stand, and every rule of a registry has its required
\* parameters before its optional ones and pairwise distinct parameter names.
C3_RequiredBeforeOptional ==
    /\ (pc # "start" /\ RequiredAfterOptional(DeclaredParams(configFile)))
           => (pc = "raised" /\ ~raisedExc.ok /\ directive_rules = <<>>)
    /\ \A name \in DOMAIN directive_rules :
           WellFormedParams(directive_rules[name].params)

\* C3 happens: [[r, a=d, c=e, b]] is rejected for the bare b that follows.
C3_Witness ==
    /\ pc = "raised"
    /\ configFile = SigConfig(<<Chars("a=d"), Chars("c=e"), Chars("b")>>)
    /\ raisedExc.kind = "required_after_optional"

(***************************************************************************)
(* Properties of the whole-line expansion                                  *)
(***************************************************************************)

\* The line is a whole-line candidate.
Candidate(line) == WHOLE_LINE_DIRECTIVE_RE(line) # None

\* The directive name a candidate line gives: the text between "[[" and the
\* first comma (or "]]"), stripped.
CandidateName(line) ==
    LET s == WHOLE_LINE_DIRECTIVE_RE(line)
    IN  Pieces(SubSeq(s, 3, Len(s) - 2))[1]

\* The step is a pass of the expander's loop over the line lines[lineno + 1].
PassOver == pc = "expand" /\ lineno' = lineno + 1

\* C4 as stated: every candidate whose name is not a key of the registry is
\* appended as it is and leaves the error count alone, whatever its arguments
\* and the options.
C4_UnregisteredUntouched ==
    [][(/\ PassOver
        /\ Candidate(lines[lineno + 1])
        /\ CandidateName(lines[lineno + 1]) \notin DOMAIN directive_rules)
       => (out' = Append(out, lines[lineno + 1]) /\ errors' = errors)]_vars

\* C4, amended: every candidate whose invocation parses and whose name is not
\* a key of the registry is appended as it is, leaves the error count alone
\* and lets the expansion go on, whatever the options; a candidate whose
\* invocation does not parse is an error, registered or not.
C4_ParsedUnregisteredUntouched ==
    [][(PassOver /\ Candidate(lines[lineno + 1]))
       => /\ (/\ Invocation(lines[lineno + 1]).ok
              /\ CandidateName(lines[lineno + 1]) \notin DOMAIN directive_rules)
             => /\ out' = Append(out, lines[lineno + 1])
                /\ errors' = errors
                /\ pc' = "expand"
          /\ ~Invocation(lines[lineno + 1]).ok
             => (tried'.kind = "error" /\ errors' = errors + 1)]_vars

\* C4 happens: [[foo, 1, 2]] went through a registry without foo as it is, with
\* no error, under options that would have aborted on one.
C4_Witness ==
    /\ pc = "expand"
    /\ lineno = 2
    /\ DOMAIN directive_rules # {}
    /\ ~options.continue_on_error
    /\ lines[2] = Chars("[[foo, 1, 2]]")
    /\ tried.kind = "unrecognized"
    /\ out[Len(out)] = Chars("[[foo, 1, 2]]")
    /\ errors = 0

\* The try block fails on line i.
Fails(i) == loop_pass(lines[i], i, directive_rules, options).res.kind = "error"

\* C5: with continue_on_error false the first line that fails ends the
\* expansion with its error: no line after it is tried, no text is returned
\* and no destination is written; an expansion that returns met no failing line.
C5_FailFast ==
    ~options.continue_on_error =>
        /\ errors >= 1 =>
              /\ pc = "raised"
              /\ errors = 1
              /\ tried.kind = "error"
              /\ raisedExc = tried.exc
              /\ Fails(lineno)
              /\ \A i \in 1..(lineno - 1) : ~Fails(i)
              /\ returned = None
              /\ dst = None
        /\ pc \in {"returned", "done"} =>
              (errors = 0 /\ \A i \in 1..Len(lines) : ~Fails(i))

\* C5 happens: [[tag]] fails on the first of two lines; the second is never
\* tried and nothing is returned or written.
C5_Witness ==
    /\ pc = "raised"
    /\ ~options.continue_on_error
    /\ Len(lines) = 2
    /\ lines[1] = Chars("[[tag]]")
    /\ lineno = 1
    /\ raisedExc.kind = "missing_required"
    /\ returned = None
    /\ dst = None

\* C6: with continue_on_error and embed_errors a failing line appends the
\* error block, with the location and the message, and then the line itself,
\* the error count rises by one, and the expansion goes on: it never ends
\* before the last line.
C6_ErrorEmbedded ==
    /\ [][(/\ PassOver
           /\ options.continue_on_error /\ options.embed_errors
           /\ tried'.kind = "error")
          => /\ out' = out \o << Chars("> **BUILD ERROR**"),
                                 Chars("> **Where:** src/book.md:") \o Str(lineno'),
                                 Chars("> **Message:** ") \o tried'.exc.msg,
                                 Chars("> (directive left unchanged)"),
                                 lines[lineno'] >>
             /\ errors' = errors + 1
             /\ pc' = "expand"]_vars
    /\ [](options.continue_on_error =>
              /\ pc = "raised" => lineno = 0
              /\ pc \in {"returned", "done"} => lineno = Len(splitlines(srcFile)))

\* C6 happens: [[tag]] fails on the first line, its block and the line itself
\* are in the output, and [[greet, World]] on the next line is expanded.
C6_Witness ==
    /\ pc = "returned"
    /\ options.continue_on_error /\ options.embed_errors
    /\ lines = <<Chars("[[tag]]"), Chars("[[greet, World]]")>>
    /\ errors = 1
    /\ origin = <<"error_block", "error_block", "error_block", "error_block",
                  "error_line", "template">>
    /\ out[5] = Chars("[[tag]]")
    /\ out[6] = Chars("Hello, World!")

\* The places in the output of the lines left unchanged after an error.
ErrorLinePlaces == {k \in DOMAIN origin : origin[k] = "error_line"}

\* C28 as stated: with embed_errors the error block ends with an empty line,
\* which stands in the output between the block and the unchanged line.
C28_BlankAfterBlock ==
    options.embed_errors =>
        \A k \in ErrorLinePlaces : k > 1 /\ out[k - 1] = <<>>

\* C28, amended: the text _format_embedded_error returns ends with a line
\* break, not with an empty line; with embed_errors the block is four lines in
\* the output, and the unchanged line stands right after the last of them.
C28_LineAfterBlock ==
    /\ options.embed_errors =>
           \A k \in ErrorLinePlaces :
               /\ k >= 5
               /\ out[k - 4] = Chars("> **BUILD ERROR**")
               /\ StartsWith(out[k - 3], Chars("> **Where:** "))
               /\ StartsWith(out[k - 2], Chars("> **Message:** "))
               /\ out[k - 1] = Chars("> (directive left unchanged)")
               /\ \A j \in (k - 4)..(k - 1) : origin[j] = "error_block"
               /\ WHOLE_LINE_DIRECTIVE_RE(out[k]) # None
    /\ (lineno >= 1 /\ tried.kind = "error") =>
           LET block == _format_embedded_error(Where(lineno), tried.exc.msg)
           IN  /\ EndsWith(block, Chars("(directive left unchanged)\n"))
               /\ Len(splitlines(block)) = 4

\* C28 happens: [[tag]] fails on the second line of a document; the fifth
\* line of the output is the last of the block and the sixth is [[tag]].
C28_Witness ==
    /\ pc = "returned"
    /\ options.continue_on_error /\ options.embed_errors
    /\ lines = <<Chars("A"), Chars("[[tag]]")>>
    /\ ErrorLinePlaces = {6}
    /\ out[5] = Chars("> (directive left unchanged)")
    /\ out[6] = Chars("[[tag]]")
    /\ Len(out) = 6

\* C7 as stated: the text the expander returns ends with a newline exactly
\* when the text it was given does.
C7_NewlineKept ==
    pc = "returned" =>
        (EndsWith(returned, Chars("\n")) <=> EndsWith(srcFile, Chars("\n")))

\* C8: the lines of a substituted template are appended as they are, and the
\* loop makes one pass for each line of the text it was given, none for the
\* lines it appends.
C8_SinglePass ==
    /\ (lineno >= 1 /\ tried.kind = "expanded") =>
           LET ls == splitlines(tried.expanded)
           IN  /\ Len(out) >= Len(ls)
               /\ SubSeq(out, Len(out) - Len(ls) + 1, Len(out)) = ls
               /\ SubSeq(origin, Len(out) - Len(ls) + 1, Len(out))
                      = [i \in 1..Len(ls) |-> "template"]
    /\ Len(origin) = Len(out)
    /\ pc \in {"returned", "done"} => lineno = Len(splitlines(srcFile))

\* C8 happens: the template of [[loop]] is the line [[loop]], and that line is
\* in the returned text as the template gave it.
C8_Witness ==
    /\ pc = "returned"
    /\ Chars("loop") \in DOMAIN directive_rules
    /\ \E i \in DOMAIN out : out[i] = Chars("[[loop]]") /\ origin[i] = "template"

\* The line is a candidate for a registered name.
RegisteredCandidate(line) ==
    Candidate(line) /\ CandidateName(line) \in DOMAIN directive_rules

\* C9 as stated: no line of the returned text is a candidate for a registered
\* name.
C9_NoRegisteredCandidate ==
    pc = "returned" =>
        \A i \in DOMAIN splitlines(returned) :
            ~RegisteredCandidate(splitlines(returned)[i])

\* C9, amended: a line of the returned text that is a candidate for a
\* registered name is a line a template produced, or a failing line left as it
\* was under continue_on_error; none was copied from the input without a try.
\* (The lines of the returned text are the lines of out, and an empty line
\* more when out is empty and the input ends with a newline.)
C9_RegisteredOnlyFailedOrProduced ==
    pc = "returned" =>
        \A i \in DOMAIN splitlines(returned) :
            IF i \in DOMAIN out
            THEN /\ splitlines(returned)[i] = out[i]
                 /\ RegisteredCandidate(out[i]) =>
                        \/ origin[i] = "template"
                        \/ origin[i] = "error_line" /\ options.continue_on_error
            ELSE splitlines(returned)[i] = <<>>

\* C9 happens: [[tag]] failed under continue_on_error and is in the returned
\* text, a candidate for the registered name tag.
C9_Witness ==
    /\ pc = "returned"
    /\ Chars("tag") \in DOMAIN directive_rules
    /\ \E i \in DOMAIN splitlines(returned) :
           /\ splitlines(returned)[i] = Chars("[[tag]]")
           /\ origin[i] = "error_line"

(***************************************************************************)
(* Properties of the page sections                                         *)
(***************************************************************************)

\* The text preprocess_file hands to preprocess_text_add_pages.
PagesInput == apply_sed_like_substitutions(returned, subst_rules)

\* The line is a page break, by the test of preprocess_text_add_pages.
IsPageBreak(line) == Strip(line) = PAGE_DIRECTIVE

IsClose(line) == line = SectionClose

\* The number of page-break lines, and of lines that read like a closing
\* marker, among the lines ls.
PageBreaks(ls) == Cardinality({i \in DOMAIN ls : IsPageBreak(ls[i])})
Closes(ls) == Cardinality({i \in DOMAIN ls : IsClose(ls[i])})

\* The line is an opening marker with a number up to n.
IsOpenUpTo(line, n) == \E p \in 1..n : line = SectionOpen(p)

\* C10: for a text with k page-break lines the output has k + 1 opening
\* markers, numbered 1..k+1 in this order, each followed by an empty line, and
\* k + 1 closing markers more than the text has lines that read like one,
\* the last of them the last line; when no line of the text reads like a
\* closing marker, the markers alternate, opening then closing, and every
\* closing marker follows an empty line.
C10_Sections ==
    pc = "done" =>
        LET inl   == splitlines(PagesInput)
            outl  == splitlines(dst)
            k     == PageBreaks(inl)
            n     == Len(inl) + 1
            marks == SelectSeq(outl, LAMBDA l : IsOpenUpTo(l, n) \/ IsClose(l))
        IN  /\ SelectSeq(outl, LAMBDA l : IsOpenUpTo(l, n))
                   = [p \in 1..(k + 1) |-> SectionOpen(p)]
            /\ Closes(outl) = k + 1 + Closes(inl)
            /\ outl[Len(outl)] = SectionClose
            /\ EndsWith(dst, SectionClose \o Chars("\n"))
            /\ \A i \in DOMAIN outl :
                   IsOpenUpTo(outl[i], n) => (i < Len(outl) /\ outl[i + 1] = <<>>)
            /\ Closes(inl) = 0 =>
                   /\ Len(marks) = 2 * (k + 1)
                   /\ \A j \in DOMAIN marks :
                          marks[j] = IF j % 2 = 1 THEN SectionOpen((j + 1) \div 2)
                                     ELSE SectionClose
                   /\ \A i \in DOMAIN outl :
                          IsClose(outl[i]) => (i > 1 /\ outl[i - 1] = <<>>)

\* C10 happens: a text with two page-break lines, one of them padded, is
\* written in three sections.
C10_Witness ==
    /\ pc = "done"
    /\ PageBreaks(splitlines(PagesInput)) = 2
    /\ \E i \in DOMAIN splitlines(PagesInput) :
           splitlines(PagesInput)[i] = Chars("  [[page]] ")
    /\ \E i \in DOMAIN splitlines(dst) : splitlines(dst)[i] = SectionOpen(3)
    /\ Closes(splitlines(dst)) = 3

(***************************************************************************)
(* Properties of the registry during a run                                 *)
(***************************************************************************)

\* The registry of directives a configuration file gives.
RegistryOf(config) == _parse_subst_config(config, includeFiles).directive_rules

\* C21: every document of a run of preprocess_all is expanded against the
\* registry built from the configuration file as it was when the run started,
\* whatever happens to the file between two documents.
C21_RegistryBuiltOnce ==
    (file_i >= 1 /\ pc \in {"expand", "returned", "done"})
        => directive_rules = RegistryOf(MainConfig)

\* Every call of preprocess_file builds the registry again, from the
\* configuration file as it is when the call reads it.
RegistryBuiltPerDocument ==
    [][(pc = "start" /\ pc' = "expand")
          => directive_rules' = RegistryOf(configFile)]_vars

\* The second document of a run was expanded against another registry than
\* the first: [[greet, World]] reads "Bye, World." in it.
RegistryChanged ==
    /\ pc = "all_done"
    /\ Len(md_files) = 2
    /\ md_files[1].text = md_files[2].text
    /\ preprocess_dir[md_files[1].name] # preprocess_dir[md_files[2].name]

(***************************************************************************)
(* Properties of the error count                                           *)
(***************************************************************************)

\* The try block raises on a candidate line: its invocation does not parse,
\* or its name is registered and the resolution of its arguments or the
\* substitution into the template fails.
Raises(line, rules) ==
    LET inv == Invocation(line)
    IN  \/ ~inv.ok
        \/ /\ inv.name \in DOMAIN rules
           /\ LET vals == _resolve_args(rules[inv.name], inv.positional, inv.named, <<>>)
              IN  \/ ~vals.ok
                  \/ ~_substitute_placeholders(rules[inv.name].template,
                                               vals.values, <<>>).ok

\* The number of lines of a text that are candidates and raise.
ErroringLines(text, rules) ==
    Cardinality({i \in 1..Len(splitlines(text)) :
                    /\ Candidate(splitlines(text)[i])
                    /\ Raises(splitlines(text)[i], rules)})

\* The sum of the numbers of erroring lines of the first n documents.
RECURSIVE ErroringLinesUpTo(_, _, _)
ErroringLinesUpTo(files, n, rules) ==
    IF n = 0 THEN 0
    ELSE ErroringLinesUpTo(files, n - 1, rules) + ErroringLines(files[n].text, rules)

\* C17: a pass of the loop raises the error count by one when the line is a
\* candidate that raises, and leaves it alone for every other line; with
\* continue_on_error the count the expander returns is the number of such
\* lines of the document; and preprocess_all returns the sum of the counts of
\* all the documents.
C17_ErrorCount ==
    /\ [][PassOver =>
             errors' = IF /\ Candidate(lines[lineno + 1])
                          /\ Raises(lines[lineno + 1], directive_rules)
                       THEN errors + 1
                       ELSE errors]_vars
    /\ []((options.continue_on_error /\ pc \in {"returned", "done"})
             => errors = ErroringLines(srcFile, directive_rules))
    /\ [](pc = "all_done"
             => total = ErroringLinesUpTo(md_files, Len(md_files), directive_rules))

\* C17 happens: a document with two erroring lines and a document with two
\* erroring lines and an expansion between them give the count 4.
C17_Witness ==
    /\ pc = "all_done"
    /\ options.continue_on_error
    /\ Len(md_files) = 2
    /\ md_files[1].text = Chars("[[bad]]\n[[tag]]")
    /\ md_files[2].text = Chars("[[tag]]\n[[greet, World]]\n[[foo,,1]]\n")
    /\ errors = 2
    /\ total = 4

(***************************************************************************)
(* Properties of the run over a directory                                  *)
(***************************************************************************)

\* The names of the documents in sorted order.
NameOrder == <<Chars("a.md"), Chars("b.md"), Chars("c.md")>>

\* The place of a name in the sorted order.
Rank(name) == CHOOSE r \in 1..Len(NameOrder) : NameOrder[r] = name

\* The names of the first n documents of md_files.
NamesUpTo(n) == {md_files[k].name : k \in 1..n}

\* The document number k has a line that raises under the configuration of
\* the run.
HasError(k) == ErroringLines(md_files[k].text, RegistryOf(MainConfig)) > 0

\* C22: preprocess_all takes the documents one after another in sorted order
\* of their names; without continue_on_error the first document with an
\* erroring line ends the run: the documents before it are written, it is not,
\* and nothing is done after; with continue_on_error the run never ends on an
\* error and every document is written when it returns.
C22_RunOverDocuments ==
    /\ [](\A i, j \in 1..Len(md_files) :
              i < j => Rank(md_files[i].name) < Rank(md_files[j].name))
    /\ [][file_i' \in {file_i, file_i + 1}]_vars
    /\ [][pc # "raised" /\ pc # "all_done"]_vars
    /\ [](file_i >= 1 =>
              /\ NamesUpTo(file_i - 1) \subseteq DOMAIN preprocess_dir
              /\ DOMAIN preprocess_dir \subseteq NamesUpTo(file_i))
    /\ [](~options.continue_on_error =>
              /\ \A k \in 1..(file_i - 1) : ~HasError(k)
              /\ pc = "raised" <=> (file_i >= 1 /\ lineno >= 1 /\ Fails(lineno))
              /\ pc = "raised" =>
                     /\ HasError(file_i)
                     /\ DOMAIN preprocess_dir = NamesUpTo(file_i - 1)
              /\ pc = "all_done" => \A k \in 1..Len(md_files) : ~HasError(k))
    /\ [](options.continue_on_error =>
              /\ pc # "raised"
              /\ pc = "all_done" =>
                     /\ file_i = Len(md_files)
                     /\ DOMAIN preprocess_dir = NamesUpTo(Len(md_files)))

\* C22 happens: of three documents the second has an erroring line; the first
\* is written, the second and the third are not, and the run has ended.
C22_Witness ==
    /\ pc = "raised"
    /\ ~options.continue_on_error
    /\ Len(md_files) = 3
    /\ file_i = 2
    /\ md_files[2].text = Chars("[[tag]]\n")
    /\ md_files[3].text = Chars("A\n")
    /\ DOMAIN preprocess_dir = {Chars("a.md")}

\* C22 happens: with continue_on_error all three documents are written, the
\* second with an erroring line.
C22_WitnessContinue ==
    /\ pc = "all_done"
    /\ options.continue_on_error
    /\ Len(md_files) = 3
    /\ md_files[2].text = Chars("[[tag]]\n")
    /\ DOMAIN preprocess_dir = {Chars("a.md"), Chars("b.md"), Chars("c.md")}

(***************************************************************************)
(* Properties of the page-break test                                       *)
(***************************************************************************)

\* The lines ls in sections, the lines with a number in breaks taken for page
\* breaks: the opening marker of page 1 and an empty line; for each break an
\* empty line, the closing marker, an empty line, the opening marker of the
\* next page and an empty line; every other line as it is; at the end an
\* empty line and the closing marker.
Sectioned(ls, breaks) ==
    << SectionOpen(1), <<>> >>
    \o Concat([i \in 1..Len(ls) |->
                  IF i \in breaks
                  THEN << <<>>, SectionClose, <<>>,
                          SectionOpen(2 + Cardinality({j \in breaks : j < i})), <<>> >>
                  ELSE << ls[i] >>])
    \o << <<>>, SectionClose >>

\* C20 as stated: a line is a page break only when it is exactly [[page]];
\* every other line, the marker with whitespace around it included, is copied
\* as it is and opens no section.
C20_PageBreakOnlyExact ==
    pc = "done" =>
        LET inl == splitlines(PagesInput)
        IN  dst = Join(Sectioned(inl, {i \in 1..Len(inl) : inl[i] = PAGE_DIRECTIVE}),
                       Chars("\n")) \o Chars("\n")

\* C20, amended: a line is a page break exactly when it is [[page]] after
\* the whitespace around it is stripped; every other line is copied as it is
\* and opens no section.
C20_PageBreakWhenStripped ==
    pc = "done" =>
        LET inl == splitlines(PagesInput)
        IN  dst = Join(Sectioned(inl, {i \in 1..Len(inl) :
                                          Strip(inl[i]) = PAGE_DIRECTIVE}),
                       Chars("\n")) \o Chars("\n")

\* C20 happens: the padded marker between A and a line that only begins with
\* the marker opens page 2; the other two lines are copied.
C20_Witness ==
    /\ pc = "done"
    /\ splitlines(PagesInput)
           = <<Chars("A"), Chars("  [[page]] "), Chars("[[page]] x")>>
    /\ splitlines(dst)
           = << SectionOpen(1), <<>>, Chars("A"),
                <<>>, SectionClose, <<>>, SectionOpen(2), <<>>,
                Chars("[[page]] x"), <<>>, SectionClose >>

(***************************************************************************)
(* Properties of the lines the expander copies                             *)
(***************************************************************************)

\* The lines among the first n of ls that are not candidates, in their order.
NonCandidates(ls, n) == SelectSeq(SubSeq(ls, 1, n), LAMBDA l : ~Candidate(l))

\* The lines of out that the loop copied from a line that did not match, in
\* their order.
CopiedLines ==
    LET idx == {k \in 1..Len(out) : origin[k] = "copied"}
    IN  [k \in 1..Cardinality(idx) |-> out[Kth(idx, k)]]

\* C19: every pass of the loop only appends to the output, and for a line
\* that is not a candidate it appends exactly that line; so the output is the
\* input with each candidate replaced in its place, and the lines that are
\* not candidates stand in it unchanged and in the input order.
C19_InPlace ==
    /\ [][PassOver =>
             /\ Len(out') >= Len(out)
             /\ SubSeq(out', 1, Len(out)) = out
             /\ ~Candidate(lines[lineno + 1]) => out' = Append(out, lines[lineno + 1])
             /\ Candidate(lines[lineno + 1]) =>
                    \A k \in (Len(out) + 1)..Len(out') : origin'[k] # "copied"]_vars
    /\ [](CopiedLines = NonCandidates(lines, lineno))
    /\ [](pc \in {"returned", "done"} =>
              returned = expand_result(out, srcFile))

\* C19 happens: [[two]] on the first line is replaced by the two lines of its
\* template, and the line A after it stands behind them.
C19_Witness ==
    /\ pc = "done"
    /\ lines = <<Chars("[[two]]"), Chars("A")>>
    /\ out = <<Chars("x"), <<>>, Chars("A")>>
    /\ origin = <<"template", "template", "copied">>

(***************************************************************************)
(* Properties of the erroring lines in the written document                *)
(***************************************************************************)

\* The expansion ran to its end with continue_on_error and embed_errors.
EmbeddedRun ==
    /\ pc = "done"
    /\ options.continue_on_error
    /\ options.embed_errors

\* C16: in the document written with continue_on_error and embed_errors, the
\* text of every line that failed is one of the lines, unchanged.
C16_ErrorLineInDocument ==
    EmbeddedRun =>
        \A i \in 1..Len(lines) :
            Fails(i) => \E k \in 1..Len(splitlines(dst)) :
                            splitlines(dst)[k] = lines[i]

\* In the text the expander returns, the text of every line that failed is
\* one of the lines, unchanged: the error block does not rewrite it.
ErrorLineInExpansion ==
    EmbeddedRun =>
        \A i \in 1..Len(lines) :
            Fails(i) => \E k \in 1..Len(splitlines(returned)) :
                            splitlines(returned)[k] = lines[i]

(***************************************************************************)
(* Properties of the tokens in the output of a template                    *)
(***************************************************************************)

\* The token occurs in a line of out that came from a template.
InTemplateOutput(token) ==
    \E k \in DOMAIN out : origin[k] = "template" /\ Find(out[k], token) # 0

\* C23 as stated: a token of a zero-parameter directive that occurs in the
\* output of a template is still in the text handed to the page sectioning.
C23_TemplateOutputKept ==
    pc = "done" =>
        \A k \in DOMAIN subst_rules :
            InTemplateOutput(subst_rules[k].token)
                => Find(PagesInput, subst_rules[k].token) # 0

\* The replacement of the rule number i or of a rule after it holds the token
\* of the rule number i, and the token of that rule stands in the line: the
\* global substitution, which takes the rules in the order of registration,
\* puts the token of the rule number i into the line at or after its turn.
BroughtBack(line, i) ==
    \E j \in i..Len(subst_rules) :
        /\ Find(subst_rules[j].replacement, subst_rules[i].token) # 0
        /\ Find(line, subst_rules[j].token) # 0

\* C23, amended: the expander returns the output of a template with its
\* tokens as they are, and the global substitution then replaces every token
\* of a zero-parameter directive wherever it stands, the output of a template
\* included: in the text handed to the page sectioning a line holds a token
\* only when the replacement of that token's rule or of a later rule put it
\* there.
C23_TemplateOutputSubstituted ==
    /\ pc \in {"returned", "done"} =>
           /\ returned = expand_result(out, srcFile)
           /\ \A k \in DOMAIN out : origin[k] = "template" =>
                  splitlines(returned)[k] = out[k]
    /\ pc = "done" =>
           \A k \in DOMAIN splitlines(PagesInput) :
               \A i \in DOMAIN subst_rules :
                   ~BroughtBack(out[k], i)
                       => Find(splitlines(PagesInput)[k], subst_rules[i].token) = 0

\* C23 happens: [[wrap]] is expanded to <[[hr]]>, the expander returns it so,
\* and the text handed to the page sectioning reads <<hr>>.
C23_Witness ==
    /\ pc = "done"
    /\ lines = <<Chars("[[wrap]]")>>
    /\ out = <<Chars("<[[hr]]>")>>
    /\ origin = <<"template">>
    /\ returned = Chars("<[[hr]]>\n")
    /\ PagesInput = Chars("<<hr>>")

(***************************************************************************)
(* Properties of the pipeline run on its own output                        *)
(***************************************************************************)

\* The expander and then the global substitution, on a text, under the
\* registry and the options of the run: the text they come to, or None when
\* the expander raises.
ExpandThenSubstitute(text) ==
    LET e == expand_whole_line_directives(text, directive_rules, options)
    IN  IF e.ok THEN apply_sed_like_substitutions(e.text, subst_rules) ELSE None

\* No line of the text is a candidate for a registered name.
NoRegisteredCandidate(text) ==
    \A i \in DOMAIN splitlines(text) : ~RegisteredCandidate(splitlines(text)[i])

\* Every candidate line of the text holds an invocation that parses.
CandidatesParse(text) ==
    \A i \in DOMAIN splitlines(text) :
        Candidate(splitlines(text)[i]) => Invocation(splitlines(text)[i]).ok

\* No token of a substitution rule occurs in the text.
NoToken(text) ==
    \A k \in DOMAIN subst_rules : Find(text, subst_rules[k].token) = 0

\* C11 as stated: the expander and the global substitution, run on a text
\* that is their own result and holds no candidate line for a registered
\* name, return that text.
C11_SecondRunIdentical ==
    (pc = "done" /\ NoRegisteredCandidate(PagesInput))
        => ExpandThenSubstitute(PagesInput) = PagesInput

\* C11, amended: the expander and the global substitution, run on a text that
\* is their own result, in which no line is a candidate for a registered name,
\* every candidate line parses and no token of a substitution rule is left,
\* return that text with no error; the page sectioning run again on its own
\* result changes it.
C11_SecondRunIdenticalWhenClean ==
    pc = "done" =>
        /\ (/\ NoRegisteredCandidate(PagesInput)
            /\ CandidatesParse(PagesInput)
            /\ NoToken(PagesInput))
           => /\ expand_whole_line_directives(PagesInput, directive_rules, options).ok
              /\ expand_whole_line_directives(PagesInput, directive_rules, options).errors = 0
              /\ ExpandThenSubstitute(PagesInput) = PagesInput
        /\ preprocess_text_add_pages(dst) # dst

\* C11 happens: a document with an expanded directive and a line left for an
\* unregistered name went through the two stages, and the result is clean.
C11_Witness ==
    /\ pc = "done"
    /\ lines = <<Chars("[[greet, World]]"), Chars("[[foo, 1, 2]]")>>
    /\ PagesInput = Chars("Hello, World!\n[[foo, 1, 2]]")
    /\ NoRegisteredCandidate(PagesInput)
    /\ CandidatesParse(PagesInput)
    /\ NoToken(PagesInput)

(***************************************************************************)
(* Properties of the run without a configuration file                      *)
(***************************************************************************)

\* preprocess_file has read a document and found no configuration file.
WithoutConfig == configFile = None /\ srcFile # None /\ pc # "start"

\* The number of candidate lines of a text whose invocation does not parse.
UnparsedCandidates(text) ==
    Cardinality({i \in DOMAIN splitlines(text) :
                    /\ Candidate(splitlines(text)[i])
                    /\ ~Invocation(splitlines(text)[i]).ok})

\* C29 as stated: without a configuration file preprocess_file completes
\* with no error, for every document and every setting of the options.
C29_MissingConfigNoErrors ==
    WithoutConfig => (pc # "raised" /\ errors = 0)

\* C29, amended: without a configuration file both registries are empty and
\* nothing is raised for the file; a document whose candidate lines all parse
\* as invocations completes with no error, every line copied as it is into
\* the text that gets the page sections; a candidate line that does not
\* parse is an error, counted with continue_on_error and raised without.
C29_MissingConfigParsed ==
    WithoutConfig =>
        /\ DOMAIN directive_rules = {}
        /\ subst_rules = <<>>
        /\ pc = "raised" =>
               /\ ~options.continue_on_error
               /\ lineno >= 1
               /\ Candidate(lines[lineno])
               /\ ~Invocation(lines[lineno]).ok
               /\ raisedExc = tried.exc
        /\ pc \in {"returned", "done"} =>
               errors = UnparsedCandidates(srcFile)
        /\ CandidatesParse(srcFile) =>
               /\ pc # "raised"
               /\ errors = 0
               /\ out = SubSeq(lines, 1, lineno)
               /\ pc \in {"returned", "done"} => returned = expand_result(lines, srcFile)
               /\ pc = "done" => dst = preprocess_text_add_pages(returned)

\* C29 happens: without a configuration file the document of the lines
\* [[greet, World]] and [[tag]] is written with both lines as they are, and
\* no error, under options that would have aborted on one.
C29_Witness ==
    /\ WithoutConfig
    /\ pc = "done"
    /\ ~options.continue_on_error
    /\ lines = <<Chars("[[greet, World]]"), Chars("[[tag]]")>>
    /\ errors = 0
    /\ out = lines
    /\ Find(dst, Chars("\n[[greet, World]]\n[[tag]]\n")) # 0

\* C29 happens: without a configuration file the line [[foo,,1]] is an
\* error all the same.
C29_WitnessError ==
    /\ WithoutConfig
    /\ pc = "done"
    /\ lines = <<Chars("[[foo,,1]]")>>
    /\ errors = 1

(***************************************************************************)
(* Properties of the debounced rebuilds                                    *)
(***************************************************************************)

\* The time of the last call of on_change, 0 when there was none.
LastCall ==
    IF on_change_calls = <<>> THEN 0 ELSE on_change_calls[Len(on_change_calls)]

\* C30 as stated: after every sequence of events on .md files on_change has
\* been called at or after the time of the last of them, so that no change
\* is left without a later rebuild.
C30_LastEventRebuilt ==
    last_md_event # 0 => LastCall >= last_md_event

\* What the handler does instead: an event on an .md file calls on_change at
\* once when min_interval_s has passed since the last call and is dropped
\* otherwise, so the last call is less than min_interval_s before the last
\* such event and the calls are min_interval_s apart; an event on a directory
\* or on another file calls nothing.
DebouncedRebuilds ==
    /\ [][(event' # event \/ on_change_calls' # on_change_calls) =>
             on_change_calls' =
                 IF /\ ~event'.is_directory
                    /\ EndsWith(lower(event'.src_path), Chars(".md"))
                    /\ clock - LastCall >= min_interval_s
                 THEN Append(on_change_calls, clock)
                 ELSE on_change_calls]_vars
    /\ [](/\ last_md_event # 0 =>
                 /\ LastCall # 0
                 /\ LastCall <= last_md_event
                 /\ last_md_event - LastCall < min_interval_s
          /\ _last_run = LastCall
          /\ \A k \in 1..(Len(on_change_calls) - 1) :
                 on_change_calls[k + 1] - on_change_calls[k] >= min_interval_s)

\* An event on src/a.md was delivered one tick after the only call of
\* on_change and was dropped.
DroppedEvent ==
    /\ on_change_calls = <<min_interval_s>>
    /\ event.src_path = Chars("src/a.md")
    /\ event.time = min_interval_s + 1
    /\ last_md_event = min_interval_s + 1
    /\ clock = MaxClock

====
